---- MODULE Spec2Model ----
(***************************************************************************)
(* A model of the GitHub notification relay of khmercoders-bot: the        *)
(* deduplication gate of the generic and the label-based senders, the      *)
(* reviewer-staleness escalator and the webhook rate limiter.              *)
(*                                                                         *)
(* Strings of the program are sequences of string tokens: a template's     *)
(* fixed text is one token, a title is one token per character, a number   *)
(* is its decimal text.  SHA-256 is idealised as collision free, so a      *)
(* digest is modelled by the token sequence that was hashed.               *)
(***************************************************************************)
EXTENDS Integers, Sequences, FiniteSets, Bags, TLC

(***************************************************************************)
(* Bounds of the model.                                                    *)
(***************************************************************************)
MaxWebhooks == 3

(***************************************************************************)
(* Inputs of the deduplication model.                                      *)
(***************************************************************************)
Requests == {"r1", "r2"}
DedupEvents == {"pull_request.opened", "pull_request.closed"}
EntityIds == {1}
Titles == {<<"a">>, <<"b">>}
LabelSets == {{"security"}}
PayloadLabels == {"Security", "urgent", "design", "docs", "ci"}
MatchLabels == {"Security", "security", "UX", "ux", "docs"}
MatchEvents == {"pull_request.opened", "issues.opened", "pull_request.closed"}
RouteEvents ==
  {"pull_request.opened", "issues.opened", "pull_request.closed",
   "pull_request.labeled"}

MaxHours == 48
MaxPREvents == 3
MaxScans == 2
MaxElapsed == 210
MaxPrior == 3
MaxMinute == 3
MaxCalls == 3

AdvanceHours == {6}
PRNumbers == {1}
Logins == {"alice"}
RateCallers == {"w1", "w2"}
RatePairs == {<<"pull_request", "org/repo">>, <<"push", "org/repo">>}
RateLimits == {[windowMinutes |-> 1, maxEvents |-> 1],
               [windowMinutes |-> 2, maxEvents |-> 2]}
PRPayloadStates == {<<"open", FALSE>>, <<"closed", FALSE>>, <<"closed", TRUE>>}
EnvChatId == "-100123"
SendOutcomes == {"ok", "not_ok", "throws"}

VARIABLES
  chatId,      \* notificationConfig.channels[key].chatId
  ledger,      \* table github_notifications: a bag of rows (the id column left out)
  chat,        \* bag of the messages the chat API accepted
  req,         \* the webhook handlers in flight
  webhooks,    \* number of webhooks accepted so far
  tracking,    \* table github_pr_tracking: pr_number -> row
  now,         \* the wall clock, in hours
  dateNow,     \* Date.now() of the next reviewer ping, in ticks of the clock
  scan,        \* processReviewerPingSystem: its result and its position
  prEvents,    \* number of pull request events processed so far
  pings,       \* history: the calls of sendReviewerPing
  everClosed,  \* history: the PRs that went from open to closed or merged
  rate_limits, \* table rate_limits: a bag of rows (the id column left out)
  minute,      \* the wall clock of the rate limiter, in minutes
  limit,       \* the windowMinutes and maxEvents the limiter is called with
  rl,          \* the calls of checkGitHubRateLimit in flight
  calls,       \* number of rate limit checks started so far
  hits,        \* history: every hit ever recorded
  route,       \* one call of the label router: its arguments and its result
  match,       \* one call of the rule matcher: its arguments and its result
  http,        \* per request: the position of handleGitHubWebhook and its response
  trigger,     \* what a POST to /notifications/scheduled has run
  call,        \* one call of a text helper: its argument and its result
  tg,          \* Telegram side: the chat_counter and users tables, the day,
               \* and the history of the deliveries
  loop,        \* the channel loop of one notification over several channels
  pulse        \* activity pulse: the clock, table activity_pulse, the calls of
               \* processActivityPulseReport in flight, and the reports sent

dedupVars == <<chatId, ledger, chat, req, webhooks>>
pingVars == <<tracking, now, dateNow, scan, prEvents, pings, everClosed>>
rateVars == <<rate_limits, minute, limit, rl, calls, hits>>
lateVars == <<loop, pulse>>
moreVars == <<call, tg, lateVars>>
auxVars == <<route, match, http, trigger, moreVars>>
vars == <<dedupVars, pingVars, rateVars, auxVars>>

(***************************************************************************)
(* Static configuration.                                                   *)
(***************************************************************************)
ChannelKeys == {"kc_dev"}
defaultChannels == <<"kc_dev">>

labelRoutingRules ==
  << [labels |-> {"security", "vulnerability", "critical", "cve"},
      targetChannels |-> <<"kc_dev">>, template |-> "security_alert",
      priority |-> "critical",
      eventTypes |-> {"pull_request.opened", "issues.opened",
                      "pull_request.review_requested"}],
     [labels |-> {"ux", "design", "ui", "frontend", "styling"},
      targetChannels |-> <<"kc_dev">>, template |-> "design_alert",
      priority |-> "normal",
      eventTypes |-> {"pull_request.opened", "pull_request.review_requested"}],
     [labels |-> {"bug", "hotfix", "urgent", "production"},
      targetChannels |-> <<"kc_dev">>, template |-> "bug_alert",
      priority |-> "high",
      eventTypes |-> {"pull_request.opened", "issues.opened"}],
     [labels |-> {"performance", "optimization", "slow"},
      targetChannels |-> <<"kc_dev">>, template |-> "performance_alert",
      priority |-> "normal",
      eventTypes |-> {"pull_request.opened", "issues.opened"}],
     [labels |-> {"documentation", "docs", "readme"},
      targetChannels |-> <<"kc_dev">>, template |-> "docs_alert",
      priority |-> "low",
      eventTypes |-> {"pull_request.opened"}],
     [labels |-> {"dependencies", "infrastructure", "ci", "devops"},
      targetChannels |-> <<"kc_dev">>, template |-> "infrastructure_alert",
      priority |-> "normal",
      eventTypes |-> {"pull_request.opened", "issues.opened"}] >>

priorityOrder == [critical |-> 4, high |-> 3, normal |-> 2, low |-> 1]

shouldProcessSmartAlert(eventType) ==
  eventType \in {"pull_request.opened", "pull_request.closed",
                 "pull_request.merged", "issues.opened", "issues.closed",
                 "push"}

shouldProcessLabelRouting(eventType) ==
  eventType \in {"pull_request.opened", "pull_request.reopened",
                 "pull_request.labeled", "issues.opened", "issues.reopened",
                 "issues.labeled"}

(***************************************************************************)
(* Label router.  The payload's labels are lower-cased on extraction; the  *)
(* label sets of the model are lower case already.                         *)
(***************************************************************************)
\* String.prototype.toLowerCase on the labels of the model
toLowerCase(l) ==
  CASE l = "Security" -> "security"
    [] l = "UX" -> "ux"
    [] OTHER -> l

\* labels: pr.labels.map(l => l.name.toLowerCase())
extractLabels(names) == {toLowerCase(l) : l \in names}

RuleMatches(i, labels, eventType) ==
  /\ labelRoutingRules[i].labels \cap labels # {}
  /\ eventType \in labelRoutingRules[i].eventTypes

RECURSIVE MatchingFrom(_, _, _)
MatchingFrom(i, labels, eventType) ==
  IF i > Len(labelRoutingRules) THEN <<>>
  ELSE (IF RuleMatches(i, labels, eventType) THEN <<i>> ELSE <<>>)
         \o MatchingFrom(i + 1, labels, eventType)

OfPriority(s, p) ==
  LET Is(i) == priorityOrder[labelRoutingRules[i].priority] = p
  IN SelectSeq(s, Is)

\* Array.prototype.sort is stable: equal priorities keep the table's order.
UnsortedMatchingRules(labels, eventType) == MatchingFrom(1, labels, eventType)

findMatchingRoutingRules(labels, eventType) ==
  LET m == MatchingFrom(1, labels, eventType)
  IN OfPriority(m, 4) \o OfPriority(m, 3) \o OfPriority(m, 2) \o OfPriority(m, 1)

(***************************************************************************)
(* Rendering and hashing.                                                  *)
(***************************************************************************)
SmartVariant(eventType) ==
  IF eventType = "pull_request.opened" THEN "pr_opened"
  ELSE IF eventType = "pull_request.closed" THEN "pr_closed"
  ELSE IF eventType = "issues.opened" THEN "issue_opened"
  ELSE IF eventType = "issues.closed" THEN "issue_closed"
  ELSE "default"

SmartMessage(eventType, id, title) ==
  <<"smart_alert", SmartVariant(eventType), "#", ToString(id), "title:">> \o title

LabelMessage(template, id, title) ==
  <<template, "PR", "#", ToString(id), "title:">> \o title

\* notification-helpers.ts: `${eventType}-${data.id || data.number}-${message}`
GenericHash(eventType, id, template, message) ==
  <<eventType, "-", ToString(id), "-">> \o message

\* labelBasedRouting.ts:
\*   `${eventType}-${data.id}-${data.matchedRule?.template}-${message.length}`
LabelLengthHash(eventType, id, template, message) ==
  <<eventType, "-", ToString(id), "-", template, "-", ToString(Len(message))>>

LabelHash(eventType, id, template, message) ==
  LabelLengthHash(eventType, id, template, message)

(***************************************************************************)
(* The ledger.                                                             *)
(***************************************************************************)
Row(eventType, id, template, chatid, hash) ==
  [event_type |-> eventType, github_id |-> ToString(id),
   notification_type |-> template, chat_id |-> chatid, data_hash |-> hash]

KeyOf(row) ==
  <<row.event_type, row.github_id, row.notification_type, row.data_hash>>

RowExists(l, key) == \E row \in BagToSet(l) : KeyOf(row) = key

SelectByChatId(l, key) ==
  \E row \in BagToSet(l) :
    <<row.event_type, row.chat_id, row.notification_type, row.data_hash>> = key

\* SELECT id FROM github_notifications WHERE event_type = ? AND github_id = ?
\*   AND notification_type = ? AND data_hash = ?
existingNotification(l, key) == RowExists(l, key)

InsertUnchecked(l, row) == <<TRUE, l (+) SetToBag({row})>>

\* INSERT under UNIQUE(event_type, github_id, notification_type, data_hash):
\* <<accepted, ledger afterwards>>
InsertRow(l, row) ==
  IF RowExists(l, KeyOf(row)) THEN <<FALSE, l>> ELSE <<TRUE, l (+) SetToBag({row})>>

(***************************************************************************)
(* A webhook handler in flight: processAllNotifications runs the smart     *)
(* alert and the label routing of one webhook as two tasks that interleave *)
(* at every await.                                                         *)
(***************************************************************************)
\* pc, ri, ci: the position in the rule and channel loops.  nsent, skipped and
\* rejected record what the call did: the sends the chat API accepted, the
\* <<template, message>> pairs skipped as duplicates, and whether an INSERT was
\* refused by the UNIQUE constraint.
IdleTask ==
  [pc |-> "idle", ri |-> 0, ci |-> 0, nsent |-> 0, skipped |-> {},
   rejected |-> FALSE]

IdleReq ==
  [evt |-> "none", id |-> 0, title |-> <<>>, labels |-> {}, rules |-> <<>>,
   prior |-> FALSE, smart |-> IdleTask, label |-> IdleTask]

Finished(q) == q.smart.pc \in {"idle", "done"} /\ q.label.pc \in {"idle", "done"}

SmartKey(q) ==
  <<q.evt, ToString(q.id), "smart_alert",
    GenericHash(q.evt, q.id, "smart_alert", SmartMessage(q.evt, q.id, q.title))>>

LabelTemplate(q) == labelRoutingRules[q.rules[q.label.ri]].template

LabelKey(q) ==
  <<q.evt, ToString(q.id), LabelTemplate(q),
    LabelHash(q.evt, q.id, LabelTemplate(q),
              LabelMessage(LabelTemplate(q), q.id, q.title))>>

\* for (const channelKey of channels): channels without a chatId are skipped
RECURSIVE NextSmart(_, _, _)
NextSmart(cfg, t, ci) ==
  IF ci > Len(defaultChannels) THEN [t EXCEPT !.pc = "done", !.ci = 0]
  ELSE IF cfg[defaultChannels[ci]] = "" THEN NextSmart(cfg, t, ci + 1)
  ELSE [t EXCEPT !.pc = "check", !.ci = ci]

\* for (const rule of matchingRules) ... for (const channelKey of targetChannels)
RECURSIVE NextLabel(_, _, _, _, _)
NextLabel(cfg, rules, t, ri, ci) ==
  IF ri > Len(rules) THEN [t EXCEPT !.pc = "done", !.ri = 0, !.ci = 0]
  ELSE IF ci > Len(labelRoutingRules[rules[ri]].targetChannels)
       THEN NextLabel(cfg, rules, t, ri + 1, 1)
  ELSE IF cfg[labelRoutingRules[rules[ri]].targetChannels[ci]] = ""
       THEN NextLabel(cfg, rules, t, ri, ci + 1)
  ELSE [t EXCEPT !.pc = "check", !.ri = ri, !.ci = ci]

SmartChat(cfg, q) == cfg[defaultChannels[q.smart.ci]]
LabelChat(cfg, q) ==
  cfg[labelRoutingRules[q.rules[q.label.ri]].targetChannels[q.label.ci]]

Sent(key, message, chatid) == [key |-> key, message |-> message, chat_id |-> chatid]

\* initializeNotificationConfig(env) of config/notifications: patches the chat
\* id of the channel from the environment
initializeNotificationConfig(cfg) == [cfg EXCEPT !["kc_dev"] = EnvChatId]

\* handleGitHubWebhook from the accepted webhook on: both tasks are started;
\* the smart alert stops at its first await, the label routing runs up to the
\* first channel that has a chatId.
Webhook(r, evt, id, title, labels) ==
  /\ webhooks < MaxWebhooks
  /\ Finished(req[r])
  /\ LET rules == IF shouldProcessLabelRouting(evt)
                  THEN findMatchingRoutingRules(labels, evt) ELSE <<>>
         q0 == [IdleReq EXCEPT !.evt = evt, !.id = id, !.title = title,
                               !.labels = labels, !.rules = rules]
         q1 == [q0 EXCEPT !.prior = RowExists(ledger, SmartKey(q0)),
                          !.smart.pc = IF shouldProcessSmartAlert(evt)
                                       THEN "begin" ELSE "done",
                          !.label = NextLabel(chatId, rules, IdleTask, 1, 1)]
     IN req' = [req EXCEPT ![r] = q1]
  /\ webhooks' = webhooks + 1
  /\ UNCHANGED <<chatId, ledger, chat>>
  /\ UNCHANGED <<pingVars, rateVars, auxVars>>

\* processSmartAlert after `await import`: the chat id is written into the
\* shared configuration, then the message is rendered and hashed
SmartBegin(r) ==
  /\ req[r].smart.pc = "begin"
  /\ chatId' = initializeNotificationConfig(chatId)
  /\ req' = [req EXCEPT ![r].smart = NextSmart(chatId', req[r].smart, 1)]
  /\ UNCHANGED <<ledger, chat, webhooks>>
  /\ UNCHANGED <<pingVars, rateVars, auxVars>>

SmartCheck(r) ==
  /\ req[r].smart.pc = "check"
  /\ req' = [req EXCEPT ![r].smart =
       IF existingNotification(ledger, SmartKey(req[r]))
       THEN NextSmart(chatId,
                      [@ EXCEPT !.skipped = @ \cup
                         {<<"smart_alert",
                            SmartMessage(req[r].evt, req[r].id, req[r].title)>>}],
                      @.ci + 1)
       ELSE [@ EXCEPT !.pc = "send"]]
  /\ UNCHANGED <<chatId, ledger, chat, webhooks>>
  /\ UNCHANGED <<pingVars, rateVars, auxVars>>

SmartSend(r, outcome) ==
  /\ req[r].smart.pc = "send"
  /\ LET q == req[r]
         m == SmartMessage(q.evt, q.id, q.title)
     IN IF outcome = "ok"
        THEN /\ chat' = chat (+) SetToBag({Sent(SmartKey(q), m, SmartChat(chatId, q))})
             /\ req' = [req EXCEPT ![r].smart.pc = "record",
                                   ![r].smart.nsent = @ + 1]
        ELSE /\ chat' = chat
             /\ req' = [req EXCEPT ![r].smart = NextSmart(chatId, @, @.ci + 1)]
  /\ UNCHANGED <<chatId, ledger, webhooks>>
  /\ UNCHANGED <<pingVars, rateVars, auxVars>>

SmartRecord(r, dbok) ==
  /\ req[r].smart.pc = "record"
  /\ LET q == req[r]
         k == SmartKey(q)
         row == Row(q.evt, q.id, "smart_alert", SmartChat(chatId, q), k[4])
         ins == InsertRow(ledger, row)
     IN /\ ledger' = IF dbok THEN ins[2] ELSE ledger
        /\ req' = [req EXCEPT ![r].smart =
                     NextSmart(chatId,
                               [@ EXCEPT !.rejected = @ \/ (dbok /\ ~ins[1])],
                               @.ci + 1)]
  /\ UNCHANGED <<chatId, chat, webhooks>>
  /\ UNCHANGED <<pingVars, rateVars, auxVars>>

LabelCheck(r) ==
  /\ req[r].label.pc = "check"
  /\ req' = [req EXCEPT ![r].label =
       IF existingNotification(ledger, LabelKey(req[r]))
       THEN NextLabel(chatId, req[r].rules,
                      [@ EXCEPT !.skipped = @ \cup
                         {<<LabelTemplate(req[r]),
                            LabelMessage(LabelTemplate(req[r]), req[r].id,
                                         req[r].title)>>}],
                      @.ri, @.ci + 1)
       ELSE [@ EXCEPT !.pc = "send"]]
  /\ UNCHANGED <<chatId, ledger, chat, webhooks>>
  /\ UNCHANGED <<pingVars, rateVars, auxVars>>

LabelSendAborting(r, outcome) ==
  /\ req[r].label.pc = "send"
  /\ LET q == req[r]
         m == LabelMessage(LabelTemplate(q), q.id, q.title)
     IN IF outcome = "ok"
        THEN /\ chat' = chat (+) SetToBag({Sent(LabelKey(q), m, LabelChat(chatId, q))})
             /\ req' = [req EXCEPT ![r].label.pc = "record",
                                   ![r].label.nsent = @ + 1]
        ELSE /\ chat' = chat
             /\ req' = [req EXCEPT ![r].label.pc = "done"]
  /\ UNCHANGED <<chatId, ledger, webhooks>>
  /\ UNCHANGED <<pingVars, rateVars, auxVars>>

LabelSend(r, outcome) ==
  /\ req[r].label.pc = "send"
  /\ LET q == req[r]
         m == LabelMessage(LabelTemplate(q), q.id, q.title)
     IN IF outcome = "ok"
        THEN /\ chat' = chat (+) SetToBag({Sent(LabelKey(q), m, LabelChat(chatId, q))})
             /\ req' = [req EXCEPT ![r].label.pc = "record",
                                   ![r].label.nsent = @ + 1]
        ELSE /\ chat' = chat
             /\ req' = [req EXCEPT ![r].label =
                          NextLabel(chatId, q.rules, @, @.ri, @.ci + 1)]
  /\ UNCHANGED <<chatId, ledger, webhooks>>
  /\ UNCHANGED <<pingVars, rateVars, auxVars>>

LabelRecord(r, dbok) ==
  /\ req[r].label.pc = "record"
  /\ LET q == req[r]
         k == LabelKey(q)
         row == Row(q.evt, q.id, LabelTemplate(q), LabelChat(chatId, q), k[4])
         ins == InsertRow(ledger, row)
     IN /\ ledger' = IF dbok THEN ins[2] ELSE ledger
        /\ req' = [req EXCEPT ![r].label =
                     NextLabel(chatId, q.rules,
                               [@ EXCEPT !.rejected = @ \/ (dbok /\ ~ins[1])],
                               @.ri, @.ci + 1)]
  /\ UNCHANGED <<chatId, chat, webhooks>>
  /\ UNCHANGED <<pingVars, rateVars, auxVars>>

(***************************************************************************)
(* Reviewer staleness escalator: the tracking table, the scheduled scan    *)
(* and the pings.  Time is counted in whole hours.                         *)
(***************************************************************************)
pingIntervals == <<36, 72, 120, 168>>

shouldSendReviewerPingOpenEnded(waitingTimeHours) ==
  \E i \in DOMAIN pingIntervals : waitingTimeHours >= pingIntervals[i]

shouldSendReviewerPing(waitingTimeHours) ==
  \E i \in DOMAIN pingIntervals :
    /\ waitingTimeHours >= pingIntervals[i]
    /\ waitingTimeHours < pingIntervals[i] + 24

determineUrgencyLevel(waitingTimeHours, previousPings) ==
  IF waitingTimeHours >= 168 \/ previousPings >= 3 THEN "critical"
  ELSE IF waitingTimeHours >= 120 \/ previousPings >= 2 THEN "urgent"
  ELSE "normal"

\* SELECT COUNT(*) FROM github_notifications
\*   WHERE github_id = ? AND notification_type = 'reviewer_ping'
countPreviousReviewerPings(l, prNumber) ==
  BagCardinality([w \in {x \in BagToSet(l) :
                            /\ x.github_id = ToString(prNumber)
                            /\ x.notification_type = "reviewer_ping"} |-> l[w]])

\* ORDER BY review_requested_at ASC (ties in primary key order)
RECURSIVE OrderByRequested(_, _)
OrderByRequested(S, tr) ==
  IF S = {} THEN <<>>
  ELSE LET n == CHOOSE n \in S : \A m \in S :
                  \/ tr[n].review_requested_at[1] < tr[m].review_requested_at[1]
                  \/ /\ tr[n].review_requested_at[1] = tr[m].review_requested_at[1]
                     /\ n <= m
       IN <<n>> \o OrderByRequested(S \ {n}, tr)

SelectAnyState(tr) == {n \in DOMAIN tr : tr[n].review_requested_at # <<>>}

\* WHERE state = 'open' AND reviewers IS NOT NULL AND review_requested_at IS
\* NOT NULL; the reviewers column always holds a JSON array
SelectAwaitingReview(tr) ==
  {n \in DOMAIN tr : tr[n].state = "open" /\ tr[n].review_requested_at # <<>>}

PingData(n, tr, l, t) ==
  LET waitingTimeHours == t - tr[n].review_requested_at[1]
      previousPings == countPreviousReviewerPings(l, n)
  IN [number |-> n,
      reviewers |-> tr[n].reviewers,
      requestedAt |-> tr[n].review_requested_at[1],
      waitingTime |-> waitingTimeHours,
      urgencyLevel |-> determineUrgencyLevel(waitingTimeHours, previousPings),
      previousPings |-> previousPings]

findStalePRs(tr, l, t) ==
  LET prs == OrderByRequested(SelectAwaitingReview(tr), tr)
      Due(n) == shouldSendReviewerPing(t - tr[n].review_requested_at[1])
      due == SelectSeq(prs, Due)
  IN [i \in DOMAIN due |-> PingData(due[i], tr, l, t)]

generateReviewerPingMessage(d) ==
  <<"Review Needed", d.urgencyLevel, "PR", "#", ToString(d.number),
    "Waiting for:", ToString(d.waitingTime), "hours">>
  \o (IF d.previousPings > 0
      THEN <<"Previous pings:", ToString(d.previousPings)>> ELSE <<>>)

generateReviewRequestMessage(n, reviewer) ==
  <<"Review Requested", "PR", "#", ToString(n), "Reviewer:", reviewer>>

\* the chat ids a message reaches: channels without a chatId are skipped, a
\* failed send is swallowed
sendToChannels(cfg, channels, outcome) ==
  {cfg[channels[i]] : i \in {j \in DOMAIN channels :
                               cfg[channels[j]] # "" /\ outcome = "ok"}}

PingRow(cfg, d, t) ==
  Row("pull_request.review_ping", d.number, "reviewer_ping", cfg["kc_dev"],
      <<"ping_", ToString(d.number), "_", ToString(t)>>)

\* tick: the hour of the last cron tick, <<>> before the first one
IdleScan ==
  [pc |-> "idle", at |-> 0, stalePRs |-> <<>>, i |-> 0, runs |-> 0, tick |-> <<>>]

\* processReviewerPingSystem up to the loop over the stale PRs
StartScan(tick) ==
  LET stalePRs == findStalePRs(tracking, ledger, now)
  IN scan' = [pc |-> IF stalePRs = <<>> THEN "idle" ELSE "send",
              at |-> now, stalePRs |-> stalePRs, i |-> 1,
              runs |-> scan.runs + 1, tick |-> tick]

\* the cron trigger fires at most once in a clock hour
scheduleReviewerPingChecks ==
  /\ scan.pc = "idle"
  /\ scan.runs < MaxScans
  /\ scan.tick # <<now>>
  /\ chatId' = [chatId EXCEPT !["kc_dev"] = EnvChatId]
  /\ IF now % 24 \in {6, 12, 18}
     THEN StartScan(<<now>>)
     ELSE scan' = [scan EXCEPT !.runs = @ + 1, !.tick = <<now>>]
  /\ UNCHANGED <<ledger, chat, req, webhooks>>
  /\ UNCHANGED <<tracking, now, dateNow, prEvents, pings, everClosed>>
  /\ UNCHANGED <<rateVars, auxVars>>

\* manualTriggerNotification('reviewer_ping', ...)
manualTriggerNotification ==
  /\ scan.pc = "idle"
  /\ scan.runs < MaxScans
  /\ StartScan(scan.tick)
  /\ UNCHANGED dedupVars
  /\ UNCHANGED <<tracking, now, dateNow, prEvents, pings, everClosed>>
  /\ UNCHANGED <<rateVars, auxVars>>

\* one turn of `for (const prData of stalePRs)`
sendReviewerPing(outcome, dbok) ==
  /\ scan.pc = "send"
  /\ LET d == scan.stalePRs[scan.i]
         row == PingRow(chatId, d, dateNow)
         reached == sendToChannels(chatId, <<"kc_dev">>, outcome)
     IN /\ chat' = chat (+) SetToBag({Sent(KeyOf(row),
                                            generateReviewerPingMessage(d), c) :
                                       c \in reached})
        /\ ledger' = IF dbok THEN InsertRow(ledger, row)[2] ELSE ledger
        /\ pings' = pings (+) SetToBag({[number |-> d.number,
                                         requestedAt |-> d.requestedAt,
                                         waitingTime |-> d.waitingTime,
                                         delivered |-> reached # {}]})
  /\ dateNow' = dateNow + 1
  /\ scan' = [scan EXCEPT !.i = @ + 1,
                          !.pc = IF scan.i = Len(scan.stalePRs)
                                 THEN "idle" ELSE "send"]
  /\ UNCHANGED <<chatId, req, webhooks, tracking, now, prEvents, everClosed>>
  /\ UNCHANGED <<rateVars, auxVars>>

\* INSERT OR REPLACE INTO github_pr_tracking on a pull request event
updatePRTracking(n, st, requested_reviewers) ==
  /\ prEvents < MaxPREvents
  /\ LET state == IF st[2] THEN "merged" ELSE st[1]
         row == [state |-> state,
                 reviewers |-> requested_reviewers,
                 last_activity_at |-> now,
                 review_requested_at |->
                   IF requested_reviewers # {} THEN <<now>> ELSE <<>>]
     IN /\ tracking' = [m \in DOMAIN tracking \cup {n} |->
                          IF m = n THEN row ELSE tracking[m]]
        /\ everClosed' = IF /\ n \in DOMAIN tracking
                            /\ tracking[n].state = "open"
                            /\ state # "open"
                         THEN everClosed \cup {n} ELSE everClosed
  /\ prEvents' = prEvents + 1
  /\ UNCHANGED dedupVars
  /\ UNCHANGED <<now, dateNow, scan, pings>>
  /\ UNCHANGED <<rateVars, auxVars>>

\* processReviewRequest: updatePRWithReviewer, then the immediate notification
processReviewRequest(n, reviewer, outcome) ==
  /\ prEvents < MaxPREvents
  /\ tracking' = [m \in DOMAIN tracking |->
                    IF m = n
                    THEN [tracking[m] EXCEPT !.reviewers = @ \cup {reviewer},
                                             !.review_requested_at = <<now>>]
                    ELSE tracking[m]]
  /\ chat' = chat (+) SetToBag({Sent(<<>>, generateReviewRequestMessage(n, reviewer), c) :
                                 c \in sendToChannels(chatId, <<"kc_dev">>, outcome)})
  /\ prEvents' = prEvents + 1
  /\ UNCHANGED <<chatId, ledger, req, webhooks>>
  /\ UNCHANGED <<now, dateNow, scan, pings, everClosed>>
  /\ UNCHANGED <<rateVars, auxVars>>

Advance(d) ==
  /\ now + d <= MaxHours
  /\ now' = now + d
  /\ UNCHANGED dedupVars
  /\ UNCHANGED <<tracking, dateNow, scan, prEvents, pings, everClosed>>
  /\ UNCHANGED <<rateVars, auxVars>>

IdleRoute == [labels |-> {}, eventType |-> "none", out |-> <<>>, done |-> FALSE]

RouteIdle == route = IdleRoute

IdleMatch == [eventType |-> "none", labels |-> {}, author |-> "", out |-> <<>>,
              done |-> FALSE]

MatchIdle == match = IdleMatch

\* status 0: no response yet; exception: "error" once something was thrown
\* while the notifications of the request were processed; unverified: a
\* secret was configured and the request did not carry the digest of its body
IdleHttp ==
  [pc |-> "idle", body |-> "none", evt |-> "none", state |-> <<"none", FALSE>>,
   admitted |-> FALSE, exception |-> "none", status |-> 0,
   unverified |-> FALSE]

HttpIdle == http = [r \in Requests |-> IdleHttp]

IdleTrigger == [posted |-> FALSE, pulse |-> {}, ping |-> FALSE]

TriggerIdle == trigger = IdleTrigger

IdleTextCall == [arg |-> <<>>, out |-> <<>>, done |-> FALSE]

CallIdle == call = IdleTextCall

\* expected: per (day, user) what the deliveries so far should have counted;
\* apiCalls: how often the account-link API was called;
\* n: the deliveries so far, uncounted: those of them that are not countable;
\* strayApi, strayLink: the API was called, a link was written, for a message
\* that is not a valid /link of a private chat (accepted by the API);
\* strayWrite: a /link message of a non-private chat changed the users table
IdleTg ==
  [chat_counter |-> <<>>, users |-> <<>>, day |-> 0, n |-> 0, uncounted |-> 0,
   expected |-> <<>>, apiCalls |-> 0, strayApi |-> FALSE, strayLink |-> FALSE,
   strayWrite |-> FALSE]

IdleLoop ==
  [pc |-> "idle", key |-> "none", targets |-> <<>>, ci |-> 0, first |-> FALSE,
   failed |-> FALSE, rows |-> {}, delivered |-> {}, n |-> 0]

PulseCallers == {"c1", "c2"}
IdlePulseCall == [pc |-> "idle", period |-> "none", date |-> 0]

\* the clock starts on Sunday at 9 o'clock
IdlePulse ==
  [clock |-> 9, table |-> {}, run |-> [c \in PulseCallers |-> IdlePulseCall],
   reports |-> EmptyBag, n |-> 0]

LateIdle == loop = IdleLoop /\ pulse = IdlePulse

MoreIdle == CallIdle /\ tg = IdleTg /\ LateIdle

AuxIdle == RouteIdle /\ MatchIdle /\ HttpIdle /\ TriggerIdle /\ MoreIdle

DedupIdle ==
  /\ ledger = EmptyBag
  /\ chat = EmptyBag
  /\ req = [r \in Requests |-> IdleReq]
  /\ webhooks = 0

PingIdle ==
  /\ tracking = <<>>
  /\ now = 0
  /\ dateNow = 0
  /\ scan = IdleScan
  /\ prEvents = 0
  /\ pings = EmptyBag
  /\ everClosed = {}

(***************************************************************************)
(* Rate limiter: checkGitHubRateLimit is three storage operations, DELETE, *)
(* SELECT COUNT and INSERT, with an await before each.  Time is counted in *)
(* whole minutes.  A storage operation that throws makes the call return   *)
(* true.                                                                   *)
(***************************************************************************)
Hit(pair, t) == [event_type |-> pair[1], identifier |-> pair[2], created_at |-> t]

\* DELETE FROM rate_limits WHERE created_at < ?
DeleteOld(rows, windowStart) ==
  [w \in {x \in BagToSet(rows) : ~(x.created_at < windowStart)} |-> rows[w]]

CountAfterWindowStart(rows, pair, windowStart) ==
  BagCardinality([w \in {x \in BagToSet(rows) :
                           /\ x.event_type = pair[1] /\ x.identifier = pair[2]
                           /\ x.created_at > windowStart} |-> rows[w]])

\* SELECT COUNT(*) FROM rate_limits
\*   WHERE event_type = ? AND identifier = ? AND created_at >= ?
CountInWindow(rows, pair, windowStart) ==
  BagCardinality([w \in {x \in BagToSet(rows) :
                           /\ x.event_type = pair[1] /\ x.identifier = pair[2]
                           /\ x.created_at >= windowStart} |-> rows[w]])

\* result: the value the call returned; failed, overlapped and recorded tell
\* how the last call went: a storage operation threw, another call was in
\* flight during it, its hit was inserted.
IdleCall ==
  [pc |-> "idle", pair |-> <<"", "">>, now |-> 0, windowStart |-> 0,
   result |-> "none", failed |-> FALSE, overlapped |-> FALSE,
   recorded |-> FALSE]

FailClosed(c) == [c EXCEPT !.pc = "idle", !.result = "rejected", !.failed = TRUE]

\* catch (error) { return true; }
FailOpen(c) == [c EXCEPT !.pc = "idle", !.result = "admitted", !.failed = TRUE]

\* const now = new Date(); windowStart; DELETE
RateBegin(p, pair, dbok) ==
  /\ rl[p].pc = "idle"
  /\ calls < MaxCalls
  /\ LET busy == \E q \in RateCallers \ {p} : rl[q].pc # "idle"
         c == [IdleCall EXCEPT !.pc = "count", !.pair = pair, !.now = minute,
                               !.windowStart = minute - limit.windowMinutes,
                               !.overlapped = busy]
     IN /\ rl' = [q \in RateCallers |->
                    IF q = p THEN (IF dbok THEN c ELSE FailOpen(c))
                    ELSE IF rl[q].pc # "idle"
                         THEN [rl[q] EXCEPT !.overlapped = TRUE] ELSE rl[q]]
        /\ rate_limits' = IF dbok THEN DeleteOld(rate_limits, c.windowStart)
                          ELSE rate_limits
  /\ calls' = calls + 1
  /\ UNCHANGED <<minute, limit, hits>>
  /\ UNCHANGED <<dedupVars, pingVars, auxVars>>

\* SELECT COUNT; if (currentCount >= maxEvents) return false
RateCount(p, dbok) ==
  /\ rl[p].pc = "count"
  /\ LET currentCount == CountInWindow(rate_limits, rl[p].pair, rl[p].windowStart)
     IN rl' = [rl EXCEPT ![p] =
                 IF ~dbok THEN FailOpen(@)
                 ELSE IF currentCount >= limit.maxEvents
                      THEN [@ EXCEPT !.pc = "idle", !.result = "rejected"]
                      ELSE [@ EXCEPT !.pc = "insert"]]
  /\ UNCHANGED <<rate_limits, minute, limit, calls, hits>>
  /\ UNCHANGED <<dedupVars, pingVars, auxVars>>

\* INSERT INTO rate_limits; return true
RateInsert(p, dbok) ==
  /\ rl[p].pc = "insert"
  /\ IF dbok
     THEN /\ rate_limits' = rate_limits (+) SetToBag({Hit(rl[p].pair, rl[p].now)})
          /\ hits' = hits (+) SetToBag({Hit(rl[p].pair, rl[p].now)})
          /\ rl' = [rl EXCEPT ![p].pc = "idle", ![p].result = "admitted",
                              ![p].recorded = TRUE]
     ELSE /\ UNCHANGED <<rate_limits, hits>>
          /\ rl' = [rl EXCEPT ![p] = FailOpen(@)]
  /\ UNCHANGED <<minute, limit, calls>>
  /\ UNCHANGED <<dedupVars, pingVars, auxVars>>

MinutePasses ==
  /\ minute < MaxMinute
  /\ minute' = minute + 1
  /\ UNCHANGED <<rate_limits, limit, rl, calls, hits>>
  /\ UNCHANGED <<dedupVars, pingVars, auxVars>>

RateIdle ==
  /\ rate_limits = EmptyBag
  /\ minute = 0
  /\ limit = [windowMinutes |-> 5, maxEvents |-> 20]
  /\ rl = [p \in RateCallers |-> IdleCall]
  /\ calls = 0
  /\ hits = EmptyBag

RateInit ==
  /\ chatId = [k \in ChannelKeys |-> ""]
  /\ DedupIdle
  /\ PingIdle
  /\ rate_limits = EmptyBag
  /\ minute = 0
  /\ limit \in RateLimits
  /\ rl = [p \in RateCallers |-> IdleCall]
  /\ calls = 0
  /\ hits = EmptyBag
  /\ AuxIdle

RateNext ==
  \/ \E p \in RateCallers, pair \in RatePairs, dbok \in BOOLEAN :
       RateBegin(p, pair, dbok)
  \/ \E p \in RateCallers, dbok \in BOOLEAN : RateCount(p, dbok)
  \/ \E p \in RateCallers, dbok \in BOOLEAN : RateInsert(p, dbok)
  \/ MinutePasses

SpecRate == RateInit /\ [][RateNext]_vars

PingInit ==
  /\ chatId = [k \in ChannelKeys |-> ""]
  /\ DedupIdle
  /\ PingIdle
  /\ RateIdle
  /\ AuxIdle

PingNext ==
  \/ \E n \in PRNumbers, st \in PRPayloadStates, rs \in SUBSET Logins :
       updatePRTracking(n, st, rs)
  \/ \E n \in PRNumbers, reviewer \in Logins, o \in SendOutcomes :
       processReviewRequest(n, reviewer, o)
  \/ \E d \in AdvanceHours : Advance(d)
  \/ scheduleReviewerPingChecks
  \/ \E o \in SendOutcomes, dbok \in BOOLEAN : sendReviewerPing(o, dbok)

SpecPing == PingInit /\ [][PingNext]_vars

DedupInit ==
  /\ chatId = [k \in ChannelKeys |-> ""]
  /\ DedupIdle
  /\ PingIdle
  /\ RateIdle
  /\ AuxIdle

DedupNext ==
  \/ \E r \in Requests, evt \in DedupEvents, id \in EntityIds,
        title \in Titles, labels \in LabelSets :
       Webhook(r, evt, id, title, labels)
  \/ \E r \in Requests : SmartBegin(r)
  \/ \E r \in Requests : SmartCheck(r)
  \/ \E r \in Requests, o \in SendOutcomes : SmartSend(r, o)
  \/ \E r \in Requests, dbok \in BOOLEAN : SmartRecord(r, dbok)
  \/ \E r \in Requests : LabelCheck(r)
  \/ \E r \in Requests, o \in SendOutcomes : LabelSend(r, o)
  \/ \E r \in Requests, dbok \in BOOLEAN : LabelRecord(r, dbok)

SpecDedup == DedupInit /\ [][DedupNext]_vars

(***************************************************************************)
(* Properties of the dedup ledger                                          *)
(***************************************************************************)
\* number of messages the chat received for one dedup key
DeliveredCount(key) ==
  BagCardinality([e \in {x \in BagToSet(chat) : x.key = key} |-> chat[e]])

\* number of ledger rows that hold one dedup key
RowCount(key) ==
  BagCardinality([w \in {x \in BagToSet(ledger) : KeyOf(x) = key} |-> ledger[w]])

\* C1: whatever the interleaving of the handlers, a notification with a given
\* dedup key (event type, entity id, notification type, content digest) is
\* delivered to the chat at most once.
C1_AtMostOnce == \A e \in BagToSet(chat) : DeliveredCount(e.key) <= 1

\* C2: when the gate is passed twice in sequence for the same notification, the
\* first call sends and the second sends nothing: a call skips a channel as a
\* duplicate only if the ledger holds its key, and a call that started when
\* the ledger already held its key skips and never sends.
C2_SecondCallSkips ==
  \A r \in Requests :
    LET q == req[r]
    IN /\ q.smart.skipped # {} => RowExists(ledger, SmartKey(q))
       /\ q.prior => q.smart.nsent = 0
       /\ q.prior /\ q.smart.pc = "done" => q.smart.skipped # {}

C2_Witness ==
  \E r1, r2 \in Requests :
    /\ r1 # r2
    /\ req[r1].smart.pc = "done" /\ req[r2].smart.pc = "done"
    /\ SmartKey(req[r1]) = SmartKey(req[r2])
    /\ ~req[r1].prior /\ req[r1].smart.nsent = 1
    /\ req[r2].prior /\ req[r2].smart.nsent = 0 /\ req[r2].smart.skipped # {}
    /\ DeliveredCount(SmartKey(req[r1])) = 1

\* C3: every dedup gate, the generic one and the label based one, treats a
\* notification whose message text changed as new: a call skips a message as a
\* duplicate only if that very message was delivered before for the same
\* event type, entity and notification type.
C3_ChangedTextIsNew ==
  \A r \in Requests :
    \A s \in req[r].smart.skipped \cup req[r].label.skipped :
      \E e \in BagToSet(chat) :
        /\ e.key[1] = req[r].evt
        /\ e.key[2] = ToString(req[r].id)
        /\ e.key[3] = s[1]
        /\ e.message = s[2]

\* C5: no two ledger rows share the key (event type, entity id, notification
\* type, content digest), also when concurrent handlers both passed the read
\* check and both try to insert.
C5_UniqueKey == \A w \in BagToSet(ledger) : RowCount(KeyOf(w)) = 1

C5_Witness ==
  \E r1, r2 \in Requests :
    /\ r1 # r2
    /\ SmartKey(req[r1]) = SmartKey(req[r2])
    /\ req[r1].smart.nsent = 1 /\ req[r2].smart.nsent = 1
    /\ req[r1].smart.pc = "done" /\ req[r2].smart.pc = "done"
    /\ req[r2].smart.rejected
    /\ RowCount(SmartKey(req[r1])) = 1

(***************************************************************************)
(* The escalator as a function of the waiting time: one open PR whose      *)
(* review was requested at hour 0, any waiting time and any number of      *)
(* earlier pings in the ledger.                                            *)
(***************************************************************************)
RECURSIVE PriorPings(_, _)
PriorPings(cfg, k) ==
  IF k = 0 THEN EmptyBag
  ELSE PriorPings(cfg, k - 1)
       (+) SetToBag({PingRow(cfg, [number |-> 1], k - 1)})

EscalateInit ==
  /\ chatId = [k \in ChannelKeys |-> EnvChatId]
  /\ chat = EmptyBag
  /\ req = [r \in Requests |-> IdleReq]
  /\ webhooks = 0
  /\ tracking = [n \in {1} |-> [state |-> "open", reviewers |-> {"alice"},
                                last_activity_at |-> 0,
                                review_requested_at |-> <<0>>]]
  /\ now \in 0..MaxElapsed
  /\ dateNow \in 0..MaxPrior
  /\ ledger = PriorPings(chatId, dateNow)
  /\ scan = IdleScan
  /\ prEvents = 0
  /\ pings = EmptyBag
  /\ everClosed = {}
  /\ RateIdle
  /\ AuxIdle

EscalateNext ==
  \/ manualTriggerNotification
  \/ \E o \in SendOutcomes, dbok \in BOOLEAN : sendReviewerPing(o, dbok)

SpecEscalate == EscalateInit /\ [][EscalateNext]_vars

(***************************************************************************)
(* Properties of the escalator                                             *)
(***************************************************************************)
\* C4: a ledger row is created only after the corresponding chat send
\* succeeded, on every path that writes the ledger (generic sender, label
\* sender, reviewer ping sender): every row has a delivered message with its
\* key in the chat it names.
C4_RowOnlyAfterSend ==
  \A w \in BagToSet(ledger) :
    \E e \in BagToSet(chat) : e.key = KeyOf(w) /\ e.chat_id = w.chat_id

\* the decision of the last scan for PR 1
Fired == \E i \in DOMAIN scan.stalePRs : scan.stalePRs[i].number = 1
FiredAs(u) ==
  \E i \in DOMAIN scan.stalePRs :
    scan.stalePRs[i].number = 1 /\ scan.stalePRs[i].urgencyLevel = u
Scanned(h, k) ==
  /\ scan.runs = 1 /\ scan.i = 1
  /\ now - tracking[1].review_requested_at[1] = h
  /\ countPreviousReviewerPings(ledger, 1) = k

\* C6 as stated: no ping at 35 h; at 36 h a ping of urgency normal; at 119 h
\* with 2 earlier pings a ping of urgency urgent; at 200 h a ping of urgency
\* critical.
C6_AsStated ==
  /\ Scanned(35, 0) => ~Fired
  /\ Scanned(36, 0) => FiredAs("normal")
  /\ Scanned(119, 2) => FiredAs("urgent")
  /\ Scanned(200, 0) => FiredAs("critical")

\* C6 amended: a scan pings a PR exactly when the waiting time lies in one of
\* the windows [36,60), [72,96), [120,144), [168,192); the urgency of a ping
\* is critical from 168 h or 3 earlier pings, urgent from 120 h or 2 earlier
\* pings, else normal.  So: no ping at 35 h, a normal ping at 36 h, no ping at
\* 119 h and no ping at 200 h.
C6_Escalator ==
  \A h \in 0..(MaxElapsed + 1), k \in 0..(MaxPrior + 1) :
    Scanned(h, k) =>
      /\ Fired <=> \/ 36 <= h /\ h < 60
                   \/ 72 <= h /\ h < 96
                   \/ 120 <= h /\ h < 144
                   \/ 168 <= h /\ h < 192
      /\ Fired /\ (h >= 168 \/ k >= 3) => FiredAs("critical")
      /\ Fired /\ h < 168 /\ k < 3 /\ (h >= 120 \/ k >= 2) => FiredAs("urgent")
      /\ Fired /\ h < 120 /\ k < 2 => FiredAs("normal")
      /\ h = 35 => ~Fired
      /\ h = 36 /\ k = 0 => FiredAs("normal")
      /\ h = 119 => ~Fired
      /\ h = 200 => ~Fired

C6_Witness == Scanned(119, 2) /\ ~Fired /\ scan.pc = "idle"

\* the delivered pings of PR n for the review request made at hour t, in the
\* threshold window that starts at waiting time lo
PingsInWindow(n, t, lo) ==
  BagCardinality([e \in {x \in BagToSet(pings) :
                           /\ x.number = n /\ x.requestedAt = t /\ x.delivered
                           /\ lo <= x.waitingTime /\ x.waitingTime < lo + 24}
                  |-> pings[e]])

\* C7: for an open PR whose review request time does not change, the scheduled
\* checks send an escalation ping once per threshold (36 h, 72 h, 120 h, 168 h)
\* and never several times inside the same threshold window.
C7_OncePerThreshold ==
  \A n \in PRNumbers, t \in 0..MaxHours, lo \in {36, 72, 120, 168} :
    PingsInWindow(n, t, lo) <= 1

PingCount(n) ==
  BagCardinality([e \in {x \in BagToSet(pings) : x.number = n} |-> pings[e]])

\* C8 as stated: once a tracked PR went from open to closed or merged, no reviewer ping is
\* sent for it any more, whatever webhooks and ticks follow.
C8_PermanentlyExcluded ==
  [][\A n \in everClosed : PingCount(n)' = PingCount(n)]_vars

\* C8 amended: a scan selects no PR whose recorded state is closed or merged at
\* the time of its query; the exclusion ends when a later pull request event
\* records the PR as open again.
C8_ExcludedWhileClosed ==
  [][scan'.runs # scan.runs /\ scan'.pc = "send" =>
       \A i \in DOMAIN scan'.stalePRs :
         tracking[scan'.stalePRs[i].number].state = "open"]_vars

C8_Witness ==
  \E n \in DOMAIN tracking :
    /\ tracking[n].state \in {"closed", "merged"}
    /\ tracking[n].review_requested_at # <<>>
    /\ tracking[n].last_activity_at < now
    /\ shouldSendReviewerPing(now - tracking[n].review_requested_at[1])
    /\ now % 24 \in {6, 12, 18}
    /\ scan.runs > 0 /\ scan.at = now /\ scan.pc = "idle"
    /\ scan.stalePRs = <<>>

(***************************************************************************)
(* Properties of the rate limiter                                          *)
(***************************************************************************)
\* the hits recorded for a pair with a timestamp in [from, to]
HitsWithin(pair, from, to) ==
  BagCardinality([w \in {x \in BagToSet(hits) :
                           /\ x.event_type = pair[1] /\ x.identifier = pair[2]
                           /\ from <= x.created_at /\ x.created_at <= to}
                  |-> hits[w]])

\* C9: for sequential calls on one pair whose storage operations succeed, a
\* call is admitted and recorded iff fewer than maxEvents recorded hits of the
\* pair lie inside the trailing window of windowMinutes; a rejected call
\* records nothing; once the earlier hits have left the window a call is
\* admitted again.
C9_SlidingWindow ==
  [][\A p \in RateCallers :
       rl[p].pc # "idle" /\ rl'[p].pc = "idle"
       /\ ~rl'[p].overlapped /\ ~rl'[p].failed =>
         LET c == rl'[p]
             before == HitsWithin(c.pair, c.now - limit.windowMinutes, c.now)
         IN /\ c.result = "admitted" <=> before < limit.maxEvents
            /\ c.result = "admitted" =>
                 /\ c.recorded
                 /\ hits' = hits (+) SetToBag({Hit(c.pair, c.now)})
                 /\ rate_limits' = rate_limits (+) SetToBag({Hit(c.pair, c.now)})
            /\ c.result = "rejected" =>
                 /\ ~c.recorded
                 /\ hits' = hits
                 /\ rate_limits' = rate_limits]_vars

C9_Witness ==
  \E p, q \in RateCallers :
    /\ rl[p].pc = "idle" /\ rl[q].pc = "idle"
    /\ rl[p].pair = rl[q].pair
    /\ ~rl[p].overlapped /\ ~rl[p].failed /\ rl[p].result = "rejected"
    /\ ~rl[q].overlapped /\ ~rl[q].failed /\ rl[q].result = "admitted"
    /\ rl[q].recorded
    /\ rl[q].now - limit.windowMinutes > rl[p].now
    /\ HitsWithin(rl[p].pair, 0, rl[p].now) = limit.maxEvents

\* C10: for each pair, the admitted requests whose hit timestamps fall inside
\* any trailing window of windowMinutes number at most maxEvents, also when
\* several checks for the pair run interleaved.
C10_BoundedRate ==
  \A pair \in RatePairs, t \in 0..(MaxMinute + 1) :
    HitsWithin(pair, t - limit.windowMinutes, t) <= limit.maxEvents

\* C11: if a storage operation of the rate limiter throws (purge, count or
\* insert), the check returns true, so the webhook is not rejected; the call
\* ends there and records no hit.
C11_FailOpen ==
  \A p \in RateCallers :
    rl[p].failed =>
      rl[p].pc = "idle" /\ rl[p].result = "admitted" /\ ~rl[p].recorded

C11_Witness ==
  \E p \in RateCallers :
    /\ rl[p].failed /\ rl[p].result = "admitted"
    /\ HitsWithin(rl[p].pair, rl[p].now - limit.windowMinutes, rl[p].now)
         >= limit.maxEvents

(***************************************************************************)
(* The label router as a function of the labels and the event type         *)
(***************************************************************************)
RouteInit ==
  /\ chatId = [k \in ChannelKeys |-> ""]
  /\ DedupIdle
  /\ PingIdle
  /\ RateIdle
  /\ MatchIdle
  /\ HttpIdle
  /\ TriggerIdle
  /\ MoreIdle
  /\ route \in {[labels |-> ls, eventType |-> e, out |-> <<>>, done |-> FALSE] :
                  ls \in SUBSET PayloadLabels, e \in RouteEvents}

\* extractLabelRoutingData, then findMatchingRoutingRules
LabelRoute ==
  /\ ~route.done
  /\ route' = [route EXCEPT
                 !.out = findMatchingRoutingRules(extractLabels(route.labels),
                                                  route.eventType),
                 !.done = TRUE]
  /\ UNCHANGED <<dedupVars, pingVars, rateVars, match, http, trigger, moreVars>>

RouteNext == LabelRoute

SpecRoute == RouteInit /\ [][RouteNext]_vars

Rank(i) ==
  CASE labelRoutingRules[i].priority = "critical" -> 4
    [] labelRoutingRules[i].priority = "high" -> 3
    [] labelRoutingRules[i].priority = "normal" -> 2
    [] labelRoutingRules[i].priority = "low" -> 1

\* C12: the label router returns the matching rules, each once, sorted by
\* descending priority with critical > high > normal > low; rules of equal
\* priority keep the order of the rule table.
C12_SortedByPriority ==
  route.done =>
    /\ \A i, j \in DOMAIN route.out :
         i < j => \/ Rank(route.out[i]) > Rank(route.out[j])
                  \/ /\ Rank(route.out[i]) = Rank(route.out[j])
                     /\ route.out[i] < route.out[j]
    /\ {route.out[i] : i \in DOMAIN route.out} =
         {r \in DOMAIN labelRoutingRules :
            /\ \E l \in route.labels :
                 toLowerCase(l) \in labelRoutingRules[r].labels
            /\ route.eventType \in labelRoutingRules[r].eventTypes}

C12_Witness == route.done /\ route.out = <<1, 3, 2, 6>>

(***************************************************************************)
(* The rule matcher of processGitHubNotification                           *)
(***************************************************************************)
NoConditions == {}

Rule(e, ls, t) ==
  [eventType |-> e, labels |-> ls, authors |-> NoConditions, template |-> t,
   enabled |-> TRUE]

rules ==
  << Rule("pull_request.opened", NoConditions, "smart_alert"),
     Rule("pull_request.closed", NoConditions, "smart_alert"),
     Rule("issues.opened", NoConditions, "smart_alert"),
     Rule("issues.closed", NoConditions, "smart_alert"),
     Rule("pull_request.opened", {"security", "vulnerability", "critical"},
          "security_alert"),
     Rule("issues.opened", {"security", "vulnerability", "critical"},
          "security_alert"),
     Rule("pull_request.opened", {"UX", "design", "ui", "frontend"},
          "design_alert"),
     Rule("pull_request.review_requested", NoConditions, "review_request"),
     Rule("issue_comment.created", NoConditions, "mention_alert"),
     Rule("activity_pulse.daily", NoConditions, "activity_pulse"),
     Rule("pull_request.review_stale", NoConditions, "reviewer_ping"),
     Rule("label_routing.*", NoConditions, "label_based") >>

\* labels: pr.labels.map(l => l.name): the names as GitHub sends them
extractCommonData(names, author) == [labels |-> names, author |-> author]

RuleSelected(r, eventType, data) ==
  /\ rules[r].eventType = eventType
  /\ rules[r].labels # {} =>
       \E label \in rules[r].labels : toLowerCase(label) \in data.labels
  /\ rules[r].authors # {} => data.author \in rules[r].authors

RECURSIVE FilterFrom(_, _, _)
FilterFrom(r, eventType, data) ==
  IF r > Len(rules) THEN <<>>
  ELSE (IF RuleSelected(r, eventType, data) THEN <<r>> ELSE <<>>)
         \o FilterFrom(r + 1, eventType, data)

findMatchingRules(eventType, data) == FilterFrom(1, eventType, data)

\* the loop of processGitHubNotification: if (!rule.enabled) continue
ProcessedRules(matchingRules) ==
  SelectSeq(matchingRules, LAMBDA r : rules[r].enabled)

MatchInit ==
  /\ chatId = [k \in ChannelKeys |-> ""]
  /\ DedupIdle
  /\ PingIdle
  /\ RateIdle
  /\ RouteIdle
  /\ HttpIdle
  /\ TriggerIdle
  /\ MoreIdle
  /\ match \in {[eventType |-> e, labels |-> ls, author |-> a, out |-> <<>>,
                 done |-> FALSE] :
                  e \in MatchEvents, ls \in SUBSET MatchLabels, a \in Logins}

MatchRules ==
  /\ ~match.done
  /\ match' = [match EXCEPT
                 !.out = ProcessedRules(
                           findMatchingRules(match.eventType,
                             extractCommonData(match.labels, match.author))),
                 !.done = TRUE]
  /\ UNCHANGED <<dedupVars, pingVars, rateVars, route, http, trigger, moreVars>>

MatchNext == MatchRules

SpecMatch == MatchInit /\ [][MatchNext]_vars

\* C13: the rule matcher selects a rule exactly when the rule is enabled, its
\* event type equals the event's type, one of the event's labels equals one of
\* the rule's labels without regard to case (if the rule has label
\* conditions), and the event's author is among the rule's authors (if the
\* rule has author conditions).
C13_RuleMatcher ==
  match.done =>
    \A r \in DOMAIN rules :
      (\E i \in DOMAIN match.out : match.out[i] = r)
        <=> /\ rules[r].enabled
            /\ rules[r].eventType = match.eventType
            /\ rules[r].labels # {} =>
                 \E l \in match.labels, ruleLabel \in rules[r].labels :
                   toLowerCase(l) = toLowerCase(ruleLabel)
            /\ rules[r].authors # {} => match.author \in rules[r].authors

(***************************************************************************)
(* One pull_request.opened webhook for PR #42 labelled security and urgent *)
(***************************************************************************)
PR42Labels == {"security", "urgent"}

\* the isolate is fresh (chat id not yet patched into the shared
\* configuration) or has served a webhook before
PR42Init ==
  /\ chatId \in {[k \in ChannelKeys |-> ""], [k \in ChannelKeys |-> EnvChatId]}
  /\ DedupIdle
  /\ PingIdle
  /\ RateIdle
  /\ AuxIdle

PR42Webhook(r, title) ==
  /\ webhooks = 0
  /\ Webhook(r, "pull_request.opened", 42, title, extractLabels(PR42Labels))

\* every send and every ledger write succeeds
PR42Next ==
  \/ \E r \in Requests, title \in Titles : PR42Webhook(r, title)
  \/ \E r \in Requests : SmartBegin(r)
  \/ \E r \in Requests : SmartCheck(r)
  \/ \E r \in Requests : SmartSend(r, "ok")
  \/ \E r \in Requests : SmartRecord(r, TRUE)
  \/ \E r \in Requests : LabelCheck(r)
  \/ \E r \in Requests : LabelSend(r, "ok")
  \/ \E r \in Requests : LabelRecord(r, TRUE)

SpecPR42 == PR42Init /\ [][PR42Next]_vars

\* C14: once the webhook for PR #42 (labels security and urgent) has been
\* processed, exactly two notifications have been delivered: one smart_alert
\* and one security_alert, under two different dedup keys.
C14_TwoNotifications ==
  \A r \in Requests :
    req[r].evt = "pull_request.opened" /\ Finished(req[r]) =>
      /\ BagCardinality(chat) = 2
      /\ {e.key[3] : e \in BagToSet(chat)} = {"smart_alert", "security_alert"}
      /\ Cardinality({e.key : e \in BagToSet(chat)}) = 2

(***************************************************************************)
(* handleGitHubWebhook: signature, parse, repository filter, rate limit,   *)
(* notifications, response                                                 *)
(***************************************************************************)
\* the x-hub-signature-256 header as <<scheme prefix, hex digest>>; <<"", "">>
\* is the absent header (parseGitHubHeaders: headerFunc(...) || '')
HmacSha256Hex == "mac"
SignatureHeaders ==
  {<<"", "">>, <<"sha256=", "mac">>, <<"sha256=", "other">>, <<"sha1=", "mac">>}

\* GITHUB_WEBHOOK_SECRET is set or not, and the signature header of the request
Signatures == [secret : BOOLEAN, header : SignatureHeaders]

Unverified(sig) == sig.secret /\ sig.header # <<"sha256=", HmacSha256Hex>>

verifyGitHubSignatureAccepting(signature) == TRUE

\* false without the header or the sha256= prefix; otherwise the hex HMAC of
\* the raw payload is compared with the rest of the header
verifyGitHubSignature(signature) ==
  IF signature = <<"", "">> \/ signature[1] # "sha256=" THEN FALSE
  ELSE HmacSha256Hex = signature[2]
HandlerBodies == {"unparseable", "no_repository", "pull_request"}
HandlerRepo == "org/repo"
WindowFull == 20

PayloadStateOf(evt) ==
  IF evt = "pull_request.opened" THEN {<<"open", FALSE>>}
  ELSE {<<"closed", FALSE>>, <<"closed", TRUE>>}

HIGH_PRIORITY_EVENTS ==
  {"pull_request.opened", "pull_request.review_requested", "issues.opened",
   "issue_comment.created", "pull_request_review.submitted"}

isHighPriorityEvent(eventType) == eventType \in HIGH_PRIORITY_EVENTS

\* extractRepositoryInfo reads payload.repository.owner.login: a TypeError
\* when the payload has no repository; allowedRepos is empty otherwise
shouldProcessWebhook(body) == IF body = "no_repository" THEN "throws" ELSE "true"

\* catch (error) { console.error(...) }: the exception is logged, not rethrown
Swallow(exception) == "none"

processAllNotificationsRethrows(exception) == exception

\* what the awaited promise settles to when `exception` was thrown inside a
\* module: the try/catch of the module, the .catch on its promise and the
\* try/catch around Promise.all
processAllNotifications(exception) == Swallow(Swallow(Swallow(exception)))

\* return c.json({success: true, ...}), or the outer catch: 500
HandlerStatus(exception) == IF exception = "none" THEN 200 ELSE 500

HandleReceive(r, sig, body, evt, st) ==
  /\ http[r].pc = "idle"
  /\ req[r] = IdleReq
  /\ st \in PayloadStateOf(evt)
  /\ LET h == [http[r] EXCEPT !.body = body, !.evt = evt, !.state = st,
                               !.unverified = Unverified(sig)]
     IN http' = [http EXCEPT ![r] =
          IF sig.secret /\ ~verifyGitHubSignature(sig.header)
          THEN [h EXCEPT !.pc = "done", !.status = 401]
          ELSE IF body = "unparseable"
          THEN [h EXCEPT !.pc = "done", !.status = 400]
          ELSE IF shouldProcessWebhook(body) = "throws"
          THEN [h EXCEPT !.pc = "done", !.status = HandlerStatus("error")]
          ELSE [h EXCEPT !.pc = "limit"]]
  /\ UNCHANGED <<dedupVars, pingVars, rateVars, route, match, trigger, moreVars>>

\* await checkGitHubRateLimit(DB, eventType, repository.full_name, 5, 20):
\* DELETE, SELECT COUNT, INSERT; a storage operation that throws admits
HandleRateLimit(r, dbok) ==
  /\ http[r].pc = "limit"
  /\ LET pair == <<http[r].evt, HandlerRepo>>
         windowStart == minute - limit.windowMinutes
         purged == DeleteOld(rate_limits, windowStart)
         currentCount == CountInWindow(purged, pair, windowStart)
     IN IF ~dbok
        THEN /\ UNCHANGED <<rate_limits, hits>>
             /\ http' = [http EXCEPT ![r].pc = "dispatch", ![r].admitted = TRUE]
        ELSE IF currentCount >= limit.maxEvents
        THEN /\ rate_limits' = purged
             /\ hits' = hits
             /\ http' = [http EXCEPT ![r].pc = "done", ![r].status = 429]
        ELSE /\ rate_limits' = purged (+) SetToBag({Hit(pair, minute)})
             /\ hits' = hits (+) SetToBag({Hit(pair, minute)})
             /\ http' = [http EXCEPT ![r].pc = "dispatch", ![r].admitted = TRUE]
  /\ UNCHANGED <<minute, limit, rl, calls>>
  /\ UNCHANGED <<dedupVars, pingVars, route, match, trigger, moreVars>>

\* processAllNotifications(...) is called: the modules start
HandleDispatch(r, id, title, labels) ==
  /\ http[r].pc = "dispatch"
  /\ req[r] = IdleReq
  /\ Webhook(r, http[r].evt, id, title, labels)

\* an awaited SELECT, send or INSERT of the smart alert throws and is caught
\* per channel (scope "channel"); what is thrown before the channel loop is
\* caught by the function, which ends (scope "module")
SmartThrows(r, scope) ==
  /\ http[r].pc = "dispatch"
  /\ IF scope = "channel" THEN req[r].smart.pc \in {"check", "send", "record"}
     ELSE req[r].smart.pc = "begin"
  /\ req' = [req EXCEPT ![r].smart =
               IF scope = "channel" THEN NextSmart(chatId, @, @.ci + 1)
               ELSE [@ EXCEPT !.pc = "done", !.ci = 0]]
  /\ http' = [http EXCEPT ![r].exception = "error"]
  /\ UNCHANGED <<chatId, ledger, chat, webhooks>>
  /\ UNCHANGED <<pingVars, rateVars, route, match, trigger, moreVars>>

\* the same for label routing: caught per channel (scope "channel"); what
\* is thrown before the first channel of a rule is caught by
\* sendLabelBasedNotification and the next rule follows (scope "rule")
LabelThrows(r, scope) ==
  /\ http[r].pc = "dispatch"
  /\ IF scope = "channel" THEN req[r].label.pc \in {"check", "send", "record"}
     ELSE req[r].label.pc = "check" /\ req[r].label.ci = 1
  /\ req' = [req EXCEPT ![r].label =
               IF scope = "channel"
               THEN NextLabel(chatId, req[r].rules, @, @.ri, @.ci + 1)
               ELSE NextLabel(chatId, req[r].rules, @, @.ri + 1, 1)]
  /\ http' = [http EXCEPT ![r].exception = "error"]
  /\ UNCHANGED <<chatId, ledger, chat, webhooks>>
  /\ UNCHANGED <<pingVars, rateVars, route, match, trigger, moreVars>>

\* high priority events await processAllNotifications, the others hand it to
\* waitUntil; then the response
HandleRespond(r) ==
  /\ http[r].pc = "dispatch"
  /\ req[r] # IdleReq
  /\ isHighPriorityEvent(http[r].evt) => Finished(req[r])
  /\ http' = [http EXCEPT
                ![r].pc = "done",
                ![r].status =
                  IF isHighPriorityEvent(http[r].evt)
                  THEN HandlerStatus(processAllNotifications(http[r].exception))
                  ELSE HandlerStatus("none")]
  /\ UNCHANGED <<dedupVars, pingVars, rateVars, route, match, trigger, moreVars>>

\* the rate_limits table is empty or holds a full window of the pair
HandlerInit ==
  /\ chatId \in {[k \in ChannelKeys |-> ""], [k \in ChannelKeys |-> EnvChatId]}
  /\ DedupIdle
  /\ PingIdle
  /\ rate_limits \in
       {EmptyBag,
        [x \in {Hit(<<"pull_request.opened", HandlerRepo>>, 0)} |-> WindowFull]}
  /\ hits = rate_limits
  /\ minute = 0
  /\ limit = [windowMinutes |-> 5, maxEvents |-> 20]
  /\ rl = [p \in RateCallers |-> IdleCall]
  /\ calls = 0
  /\ AuxIdle

HandlerNext ==
  \/ \E r \in Requests, sig \in Signatures, body \in HandlerBodies,
        evt \in DedupEvents, st \in PRPayloadStates :
       HandleReceive(r, sig, body, evt, st)
  \/ \E r \in Requests, dbok \in BOOLEAN : HandleRateLimit(r, dbok)
  \/ \E r \in Requests, id \in EntityIds, labels \in LabelSets :
       HandleDispatch(r, id, <<"a">>, labels)
  \/ \E r \in Requests : SmartBegin(r)
  \/ \E r \in Requests : SmartCheck(r)
  \/ \E r \in Requests, o \in {"ok", "not_ok"} : SmartSend(r, o)
  \/ \E r \in Requests : SmartRecord(r, TRUE)
  \/ \E r \in Requests, scope \in {"channel", "module"} : SmartThrows(r, scope)
  \/ \E r \in Requests : LabelCheck(r)
  \/ \E r \in Requests, o \in {"ok", "not_ok"} : LabelSend(r, o)
  \/ \E r \in Requests : LabelRecord(r, TRUE)
  \/ \E r \in Requests, scope \in {"channel", "rule"} : LabelThrows(r, scope)
  \/ \E r \in Requests : HandleRespond(r)

SpecHandler == HandlerInit /\ [][HandlerNext]_vars

\* C15: once the payload of a webhook has parsed and passed the rate limit,
\* the response is the success acknowledgment, whatever was thrown or failed
\* while its notifications were processed.
C15_AlwaysAcknowledged ==
  \A r \in Requests :
    http[r].pc = "done" /\ http[r].admitted => http[r].status = 200

C15_Witness ==
  \E r \in Requests :
    /\ http[r].pc = "done" /\ http[r].admitted
    /\ isHighPriorityEvent(http[r].evt)
    /\ http[r].exception = "error"
    /\ http[r].status = 200

\* C16: a malformed webhook (body that does not parse, or payload without
\* repository) is answered with a client error (4xx), and handling it changes
\* neither the rate-limit table, nor the ledger, nor the PR tracking table.
C16_MalformedRejected ==
  [][\A r \in Requests :
       /\ http[r].pc = "idle"
       /\ http'[r].pc # "idle"
       /\ http'[r].body \in {"unparseable", "no_repository"}
       => /\ http'[r].pc = "done"
          /\ http'[r].status \in 400..499
          /\ rate_limits' = rate_limits
          /\ ledger' = ledger
          /\ tracking' = tracking]_vars

\* C18: when an accepted pull_request.* webhook has been answered and its
\* notification processing has completed, the tracking table holds the row of
\* its PR number with the state of the payload (open, closed or merged).
C18_TrackingUpserted ==
  \A r \in Requests :
    /\ http[r].pc = "done"
    /\ http[r].status = 200
    /\ Finished(req[r])
    => /\ req[r].id \in DOMAIN tracking
       /\ tracking[req[r].id].state =
            (IF http[r].state[2] THEN "merged" ELSE http[r].state[1])

(***************************************************************************)
(* The webhook for PR #42 when sends to the chat may fail                  *)
(***************************************************************************)
SendFailNext ==
  \/ \E r \in Requests, title \in Titles : PR42Webhook(r, title)
  \/ \E r \in Requests : SmartBegin(r)
  \/ \E r \in Requests : SmartCheck(r)
  \/ \E r \in Requests, o \in SendOutcomes : SmartSend(r, o)
  \/ \E r \in Requests : SmartRecord(r, TRUE)
  \/ \E r \in Requests : LabelCheck(r)
  \/ \E r \in Requests, o \in SendOutcomes : LabelSend(r, o)
  \/ \E r \in Requests : LabelRecord(r, TRUE)

SpecSendFail == PR42Init /\ [][SendFailNext]_vars

C19_SetOncePerCycle ==
  [][\A n \in PRNumbers, rs \in SUBSET Logins :
       /\ n \in DOMAIN tracking
       /\ tracking[n].state = "open"
       /\ tracking[n].review_requested_at # <<>>
       /\ rs = tracking[n].reviewers
       /\ updatePRTracking(n, <<"open", FALSE>>, rs)
       => tracking'[n].review_requested_at = tracking[n].review_requested_at]_vars

(***************************************************************************)
(* POST /notifications/scheduled: runScheduledNotifications.  `now` counts *)
(* the hours of a week that starts on Sunday at 0 o'clock.                 *)
(***************************************************************************)
HoursOfWeek == 0..167

getHours(t) == t % 24
getDay(t) == (t \div 24) % 7

\* scheduleActivityPulseReports: the periods processActivityPulseReport is
\* called for
ActivityPulsePeriods(t) ==
  (IF getHours(t) = 9 THEN {"daily"} ELSE {})
    \cup (IF getDay(t) = 0 /\ getHours(t) = 10 THEN {"weekly"} ELSE {})

\* scheduleReviewerPingChecks: whether processReviewerPingSystem is called
ReviewerPingDue(t) == getHours(t) \in {6, 12, 18}

PostScheduled ==
  /\ ~trigger.posted
  /\ chatId' = [chatId EXCEPT !["kc_dev"] = EnvChatId]
  /\ trigger' = [posted |-> TRUE, pulse |-> ActivityPulsePeriods(now),
                 ping |-> ReviewerPingDue(now)]
  /\ IF ReviewerPingDue(now) THEN StartScan(<<now>>) ELSE scan' = scan
  /\ UNCHANGED <<ledger, chat, req, webhooks>>
  /\ UNCHANGED <<tracking, now, dateNow, prEvents, pings, everClosed>>
  /\ UNCHANGED <<rateVars, route, match, http, moreVars>>

TriggerInit ==
  /\ chatId = [k \in ChannelKeys |-> ""]
  /\ DedupIdle
  /\ tracking = <<>>
  /\ now \in HoursOfWeek
  /\ dateNow = 0
  /\ scan = IdleScan
  /\ prEvents = 0
  /\ pings = EmptyBag
  /\ everClosed = {}
  /\ RateIdle
  /\ AuxIdle

TriggerNext == PostScheduled

SpecTrigger == TriggerInit /\ [][TriggerNext]_vars

\* C20: a POST to /notifications/scheduled runs the activity pulse report and
\* the reviewer-ping check whatever the hour and the weekday are.
C20_BypassesGate ==
  trigger.posted => trigger.pulse # {} /\ trigger.ping

\* the rule of a supported category, by one label of the category
CategoryRule(l) ==
  CASE l = "security" -> 1
    [] l = "design" -> 2
    [] l = "bug" -> 3
    [] l = "performance" -> 4
    [] l = "documentation" -> 5
    [] l = "infrastructure" -> 6
    [] OTHER -> 0

\* C21: whenever an event that the scheduler forwards to label routing
\* (opened, reopened or labeled, PR or issue) carries a label of a supported
\* category, the rule of that category is among the routed rules, so that its
\* specialized alert is sent.
C21_CategoryRouted ==
  route.done /\ shouldProcessLabelRouting(route.eventType) =>
    \A l \in extractLabels(route.labels) :
      CategoryRule(l) # 0 =>
        \E i \in DOMAIN route.out : route.out[i] = CategoryRule(l)

(***************************************************************************)
(* summarizeContent.  A text is a sequence of characters: "x" stands for   *)
(* any ordinary character, "#" for a markdown character, "nl" for a        *)
(* newline.                                                                *)
(***************************************************************************)
SummaryLimit == 150
SummaryFloor == 100
BodyLengths == {150, 151, 300}
SpacePositions == {50, 100, 101, 140, 150}
MarkdownPositions == {{}, {0}}
NewlinePositions == {{}, {120, 121}}

\* the body with the given characters at the given indices (from 0)
Body(len, sp, md, nl) ==
  [i \in 1..len |-> IF i - 1 \in sp THEN " "
                    ELSE IF i - 1 \in md THEN "#"
                    ELSE IF i - 1 \in nl THEN "nl"
                    ELSE "x"]

\* content.replace(/[#*`_~]/g, '')
RemoveMarkdown(t) == SelectSeq(t, LAMBDA c : c # "#")

\* .replace(/\n+/g, ' '): each run of newlines becomes one space
ReplaceNewlines(t) ==
  LET marked == [i \in DOMAIN t |->
                   IF t[i] # "nl" THEN t[i]
                   ELSE IF i < Len(t) /\ t[i + 1] = "nl" THEN "drop"
                   ELSE " "]
  IN SelectSeq(marked, LAMBDA c : c # "drop")

\* .trim()
Trim(t) ==
  LET inked == {i \in DOMAIN t : t[i] # " "}
  IN IF inked = {} THEN <<>>
     ELSE LET lo == CHOOSE i \in inked : \A j \in inked : i <= j
              hi == CHOOSE i \in inked : \A j \in inked : i >= j
          IN SubSeq(t, lo, hi)

Cleaned(content) == Trim(ReplaceNewlines(RemoveMarkdown(content)))

\* cleaned.lastIndexOf(' ', fromIndex): the greatest index (from 0) at or
\* before fromIndex that holds a space, or -1
lastIndexOf(t, fromIndex) ==
  LET found == {i \in 0..fromIndex : i + 1 <= Len(t) /\ t[i + 1] = " "}
  IN IF found = {} THEN -1
     ELSE CHOOSE i \in found : \A j \in found : i >= j

Ellipsis == <<".", ".", ".">>

summarizeContentAnySpace(content) ==
  IF content = <<>> THEN <<"No description provided">>
  ELSE LET cleaned == Cleaned(content)
           breakPoint == lastIndexOf(cleaned, SummaryLimit)
       IN IF Len(cleaned) <= SummaryLimit THEN cleaned
          ELSE SubSeq(cleaned, 1, IF breakPoint > 0 THEN breakPoint
                                  ELSE SummaryLimit) \o Ellipsis

summarizeContent(content) ==
  IF content = <<>> THEN <<"No description provided">>
  ELSE LET cleaned == Cleaned(content)
           breakPoint == lastIndexOf(cleaned, SummaryLimit)
       IN IF Len(cleaned) <= SummaryLimit THEN cleaned
          ELSE SubSeq(cleaned, 1, IF breakPoint > SummaryFloor THEN breakPoint
                                  ELSE SummaryLimit) \o Ellipsis

SummaryInit ==
  /\ chatId = [k \in ChannelKeys |-> ""]
  /\ DedupIdle
  /\ PingIdle
  /\ RateIdle
  /\ RouteIdle
  /\ MatchIdle
  /\ HttpIdle
  /\ TriggerIdle
  /\ tg = IdleTg
  /\ LateIdle
  /\ call \in {[arg |-> Body(len, sp, md, nl), out |-> <<>>, done |-> FALSE] :
                 len \in BodyLengths, sp \in SUBSET SpacePositions,
                 md \in MarkdownPositions, nl \in NewlinePositions}

Summarize ==
  /\ ~call.done
  /\ call' = [call EXCEPT !.out = summarizeContent(call.arg), !.done = TRUE]
  /\ UNCHANGED <<dedupVars, pingVars, rateVars, route, match, http, trigger, tg, lateVars>>

SummaryNext == Summarize

SpecSummary == SummaryInit /\ [][SummaryNext]_vars

\* the indices (from 0) at or before the limit where the cleaned text has a
\* space
SpacesBeforeLimit(t) == {i \in 0..150 : i + 1 <= Len(t) /\ t[i + 1] = " "}

LastSpace(t) ==
  CHOOSE i \in SpacesBeforeLimit(t) : \A j \in SpacesBeforeLimit(t) : i >= j

\* C22 as stated: a cleaned text longer than 150 characters is cut at its
\* last space at or before position 150, or at 150 when there is no such
\* space, and an ellipsis follows.
C22_AsStated ==
  call.done /\ Len(Cleaned(call.arg)) > 150 =>
    LET t == Cleaned(call.arg)
    IN call.out =
         SubSeq(t, 1, IF SpacesBeforeLimit(t) # {} THEN LastSpace(t) ELSE 150)
           \o <<".", ".", ".">>

\* C22: a cleaned text longer than 150 characters is cut at its last space at
\* or before position 150 when that space lies after position 100, and at
\* 150 otherwise (no space, or only spaces at or before position 100); an
\* ellipsis follows.
C22_Summary ==
  call.done /\ Len(Cleaned(call.arg)) > 150 =>
    LET t == Cleaned(call.arg)
    IN call.out =
         SubSeq(t, 1, IF SpacesBeforeLimit(t) # {} /\ LastSpace(t) > 100
                      THEN LastSpace(t) ELSE 150)
           \o <<".", ".", ".">>

C22_Witness ==
  /\ call.done
  /\ Len(Cleaned(call.arg)) = 300
  /\ SpacesBeforeLimit(Cleaned(call.arg)) # {}
  /\ LastSpace(Cleaned(call.arg)) = 140
  /\ Len(call.out) = 143

(***************************************************************************)
(* Mention extraction.  A user name is a sequence of characters; a text is *)
(* a sequence of tokens, each a plain word or an @mention of a user name.  *)
(***************************************************************************)
MaxWords == 3

alice == <<"a", "l", "i", "c", "e">>
Alice == <<"A", "l", "i", "c", "e">>
bob == <<"b", "o", "b">>
RenovateX == <<"R", "e", "n", "o", "v", "a", "t", "e", "-", "x">>
codecov == <<"c", "o", "d", "e", "c", "o", "v">>

UserNames == {alice, Alice, bob, RenovateX, codecov}
Authors == {alice, bob}

PlainWord == [at |-> FALSE, name |-> <<>>]
Mention(n) == [at |-> TRUE, name |-> n]
Tokens == {PlainWord} \cup {Mention(n) : n \in UserNames}
Texts == UNION {[1..k -> Tokens] : k \in 0..MaxWords}

botPatterns ==
  << <<"d", "e", "p", "e", "n", "d", "a", "b", "o", "t">>,
     <<"g", "i", "t", "h", "u", "b", "-", "a", "c", "t", "i", "o", "n", "s">>,
     <<"r", "e", "n", "o", "v", "a", "t", "e">>,
     <<"c", "o", "d", "e", "c", "o", "v">>,
     <<"g", "r", "e", "e", "n", "k", "e", "e", "p", "e", "r">>,
     <<"s", "n", "y", "k", "-", "b", "o", "t">> >>

\* username.toLowerCase(), on the characters of the model
LowerChar(c) ==
  CASE c = "A" -> "a"
    [] c = "R" -> "r"
    [] OTHER -> c

LowerName(n) == [i \in DOMAIN n |-> LowerChar(n[i])]

\* String.prototype.includes
Includes(n, pattern) ==
  \E i \in 1..Len(n) :
    i + Len(pattern) - 1 <= Len(n) /\ SubSeq(n, i, i + Len(pattern) - 1) = pattern

isBot(username) ==
  \E k \in DOMAIN botPatterns : Includes(LowerName(username), botPatterns[k])

\* while ((match = mentionRegex.exec(text)) !== null): the names of the
\* mentions that are not bots, in text order
MatchedNames(text) ==
  LET found == SelectSeq(text, LAMBDA w : w.at /\ ~isBot(w.name))
  IN [i \in DOMAIN found |-> found[i].name]

\* [...new Set(mentions)]: the first occurrence of each value, in order
RECURSIVE Distinct(_)
Distinct(names) ==
  IF names = <<>> THEN <<>>
  ELSE LET front == Distinct(SubSeq(names, 1, Len(names) - 1))
           last == names[Len(names)]
       IN IF \E i \in DOMAIN front : front[i] = last THEN front
          ELSE Append(front, last)

findMentionsKeepingDuplicates(text) == MatchedNames(text)

findMentions(text) == Distinct(MatchedNames(text))

\* createMentionData returns null when mentionedGitHubUser === mentioner
extractMentions(text, mentioner) ==
  SelectSeq(findMentions(text), LAMBDA u : u # mentioner)

MentionInit ==
  /\ chatId = [k \in ChannelKeys |-> ""]
  /\ DedupIdle
  /\ PingIdle
  /\ RateIdle
  /\ RouteIdle
  /\ MatchIdle
  /\ HttpIdle
  /\ TriggerIdle
  /\ tg = IdleTg
  /\ LateIdle
  /\ call \in {[arg |-> [text |-> t, author |-> a], out |-> <<>>,
                done |-> FALSE] : t \in Texts, a \in Authors}

ExtractMentions ==
  /\ ~call.done
  /\ call' = [call EXCEPT !.out = extractMentions(call.arg.text, call.arg.author),
                          !.done = TRUE]
  /\ UNCHANGED <<dedupVars, pingVars, rateVars, route, match, http, trigger, tg, lateVars>>

MentionNext == ExtractMentions

SpecMention == MentionInit /\ [][MentionNext]_vars

BotNames == {RenovateX, codecov}

FirstSeen(text, n) ==
  CHOOSE i \in DOMAIN text :
    /\ text[i] = Mention(n)
    /\ \A j \in DOMAIN text : text[j] = Mention(n) => i <= j

\* C23: mention extraction yields each distinct @username of the text once,
\* in first-seen order, leaving out the names that contain a bot name (in any
\* case) and the author of the text.
C23_Mentions ==
  call.done =>
    LET text == call.arg.text
        out == call.out
    IN /\ \A i, j \in DOMAIN out : i # j => out[i] # out[j]
       /\ {out[i] : i \in DOMAIN out} =
            {n \in UserNames : \E k \in DOMAIN text : text[k] = Mention(n)}
              \ (BotNames \cup {call.arg.author})
       /\ \A i, j \in DOMAIN out :
            i < j => FirstSeen(text, out[i]) < FirstSeen(text, out[j])

C23_Witness ==
  /\ call.done
  /\ call.arg.text = <<Mention(bob), Mention(alice), Mention(bob)>>
  /\ call.arg.author = alice
  /\ call.out = <<bob>>

(***************************************************************************)
(* Telegram webhook: message counting and the /link command.  A text is a  *)
(* sequence of words separated by single spaces; <<>> is a message without *)
(* text.                                                                   *)
(***************************************************************************)
MaxUpdates == 3
MaxDay == 1

UpdateKinds == {"message", "edited_message", "channel_post"}
ChatTypes == {"supergroup", "private", "group"}
Senders == {"none", "bot", "u1"}
MessageTexts ==
  {<<>>, <<"hello">>, <<"/link", "abc123XYZ">>, <<"/link", "abc-123XY">>,
   <<"/link", "short">>, <<"/link", "abc123XYZ", "hello">>}
ApiOutcomes == {"accepts", "rejects"}

Updates ==
  [kind : UpdateKinds, chatType : ChatTypes, service : BOOLEAN,
   from : Senders, text : MessageTexts]

WordLength(w) == IF w = "abc123XYZ" \/ w = "abc-123XY" THEN 9 ELSE 5

RECURSIVE TextLength(_)
TextLength(text) ==
  IF text = <<>> THEN 0
  ELSE IF Len(text) = 1 THEN WordLength(text[1])
  ELSE WordLength(text[1]) + 1 + TextLength(Tail(text))

\* /^[a-zA-Z0-9]+$/
alphanumeric(w) == w # "abc-123XY"

\* message.text?.startsWith('/link')
isLinkCommand(text) == text # <<>> /\ text[1] = "/link"

\* processLinkCommand: whether the API is called for the message, and the
\* account the sender is linked to ("null": users is not written)
LinkResult(called, account) == [called |-> called, account |-> account]

LinkAfterValidation(text, from, api) ==
  IF Len(text) # 2 THEN LinkResult(FALSE, "null")
  ELSE IF WordLength(text[2]) # 9 \/ ~alphanumeric(text[2])
  THEN LinkResult(FALSE, "null")
  ELSE IF api # "accepts" \/ from = "none" THEN LinkResult(TRUE, "null")
  ELSE LinkResult(TRUE, "acct")

processLinkCommandAnyChat(chatType, text, from, api) ==
  LinkAfterValidation(text, from, api)

processLinkCommand(chatType, text, from, api) ==
  IF chatType # "private" THEN LinkResult(FALSE, "null")
  ELSE LinkAfterValidation(text, from, api)

\* INSERT INTO users ... ON CONFLICT DO UPDATE SET linked_user_id
LinkUser(users, from, account) ==
  [u \in DOMAIN users \cup {from} |-> IF u = from THEN account ELSE users[u]]

\* INSERT OR IGNORE INTO users (platform, user_id, display_name)
InsertOrIgnoreUser(users, from) ==
  [u \in DOMAIN users \cup {from} |-> IF u \in DOMAIN users THEN users[u] ELSE "null"]

Upsert(rows, key, first, next) ==
  [k \in DOMAIN rows \cup {key} |->
     IF k # key THEN rows[k]
     ELSE IF key \in DOMAIN rows THEN next ELSE first]

countUserMessageOverwriting(rows, today, userId, messageLength) ==
  Upsert(rows, <<today, userId>>,
         [message_count |-> 1, message_length |-> messageLength],
         [message_count |-> 1, message_length |-> messageLength])

\* INSERT INTO chat_counter ... ON CONFLICT DO UPDATE SET
\*   message_count = message_count + 1, message_length = message_length + ?
countUserMessage(rows, today, userId, messageLength) ==
  Upsert(rows, <<today, userId>>,
         [message_count |-> 1, message_length |-> messageLength],
         IF <<today, userId>> \in DOMAIN rows
         THEN [message_count |-> rows[<<today, userId>>].message_count + 1,
               message_length |->
                 rows[<<today, userId>>].message_length + messageLength]
         ELSE <<>>)

\* the claim's count: new messages in a supergroup, not service messages,
\* with a sender that is not a bot
\* the users that are linked, each with its account
Linked(users) == {<<u, users[u]>> : u \in {v \in DOMAIN users : users[v] # "null"}}

\* the claim's /link message: in a private chat, one argument of 9
\* alphanumeric characters
PrivateLinkWithCode(u) ==
  u.chatType = "private" /\ u.text = <<"/link", "abc123XYZ">>

Countable(u) ==
  /\ u.kind = "message"
  /\ u.chatType = "supergroup"
  /\ ~u.service
  /\ u.from \notin {"none", "bot"}

handleTelegramWebhook(u, api) ==
  /\ tg.n < MaxUpdates
  /\ LET link == isLinkCommand(u.text)
         ignored == \/ u.kind # "message"
                    \/ u.chatType # "supergroup" /\ ~link
                    \/ u.chatType = "private" /\ ~link
                    \/ u.service
         \* the command loop: in a supergroup /link is only answered with a
         \* warning, elsewhere command.process runs
         res == IF ignored \/ ~link \/ u.chatType = "supergroup"
                THEN LinkResult(FALSE, "null")
                ELSE processLinkCommand(u.chatType, u.text, u.from, api)
         linked == IF res.account # "null"
                   THEN LinkUser(tg.users, u.from, res.account) ELSE tg.users
         counts == /\ ~ignored
                   /\ u.chatType = "supergroup"
                   /\ u.from # "none"
                   /\ u.from # "bot"
         key == <<tg.day, u.from>>
         written == IF counts THEN InsertOrIgnoreUser(linked, u.from) ELSE linked
     IN tg' = [tg EXCEPT
          !.strayApi = @ \/ (res.called /\ ~PrivateLinkWithCode(u)),
          !.strayLink = @ \/ /\ Linked(written) # Linked(tg.users)
                              /\ ~(PrivateLinkWithCode(u) /\ api = "accepts"),
          !.strayWrite = @ \/ /\ written # tg.users
                               /\ isLinkCommand(u.text)
                               /\ u.chatType # "private",
          !.n = @ + 1,
          !.uncounted = IF Countable(u) THEN @ ELSE @ + 1,
          !.apiCalls = IF res.called THEN @ + 1 ELSE @,
          !.users = written,
          !.chat_counter =
             IF counts
             THEN countUserMessage(@, tg.day, u.from, TextLength(u.text))
             ELSE @,
          !.expected =
             IF Countable(u)
             THEN Upsert(@, key,
                         [message_count |-> 1,
                          message_length |-> TextLength(u.text)],
                         IF key \in DOMAIN @
                         THEN [message_count |-> @[key].message_count + 1,
                               message_length |->
                                 @[key].message_length + TextLength(u.text)]
                         ELSE <<>>)
             ELSE @]
  /\ UNCHANGED <<dedupVars, pingVars, rateVars, route, match, http, trigger, call, lateVars>>

\* the UTC date changes
NextDay ==
  /\ tg.day < MaxDay
  /\ tg' = [tg EXCEPT !.day = @ + 1]
  /\ UNCHANGED <<dedupVars, pingVars, rateVars, route, match, http, trigger, call, lateVars>>

TelegramNext ==
  \/ \E u \in Updates, api \in ApiOutcomes : handleTelegramWebhook(u, api)
  \/ NextDay

SpecTelegram == DedupInit /\ [][TelegramNext]_vars

\* C24: after any sequence of deliveries the chat_counter row of each
\* (date, user) holds the number of delivered new supergroup messages of a
\* non-bot sender that are not service messages, and the sum of their text
\* lengths; no other update changes a counter.
C24_CountsMessages == tg.chat_counter = tg.expected

C24_Witness ==
  /\ tg.uncounted = 1
  /\ <<0, "u1">> \in DOMAIN tg.chat_counter
  /\ tg.chat_counter[<<0, "u1">>] = [message_count |-> 2, message_length |-> 20]

\* C25 as stated: the API is called and the link written only for a valid
\* /link in a private chat that the API accepts, and a /link message in a
\* non-private chat neither reaches the API nor writes the users table.
C25_AsStated == ~tg.strayApi /\ ~tg.strayLink /\ ~tg.strayWrite

\* C25: the API is called and the link written only for a valid /link in a
\* private chat that the API accepts; a /link message in a non-private chat
\* neither reaches the API nor changes the linked account of any user.
C25_LinkOnlyPrivate == ~tg.strayApi /\ ~tg.strayLink

\* a user is linked, and a /link message of a supergroup was counted
C25_Witness ==
  /\ tg.apiCalls = 1
  /\ Linked(tg.users) = {<<"u1", "acct">>}
  /\ \E k \in DOMAIN tg.chat_counter : tg.chat_counter[k].message_length = 15

\* C26: the purge of a rate-limit check for one (eventType, identifier) pair
\* leaves the entries of every other pair unchanged.
C26_OtherPairsUnchanged ==
  [][\A p \in RateCallers :
       rl[p].pc = "idle" /\ rl'[p].pc = "count" =>
         \A x \in BagToSet(rate_limits) :
           <<x.event_type, x.identifier>> # rl'[p].pair =>
             CopiesIn(x, rate_limits') = CopiesIn(x, rate_limits)]_vars

\* C27: with a webhook secret configured, a request whose signature does not
\* verify is answered 401 at once; receiving it adds no rate-limit entry,
\* writes no ledger or tracking row, sends no chat message and starts no
\* notification processing.
C27_UnverifiedRejected ==
  /\ [](\A r \in Requests :
          /\ http[r].pc # "idle"
          /\ http[r].unverified
          => /\ http[r].pc = "done"
             /\ http[r].status = 401
             /\ ~http[r].admitted
             /\ req[r] = IdleReq)
  /\ [][\A r \in Requests :
          /\ http[r].pc = "idle"
          /\ http'[r].pc # "idle"
          /\ http'[r].unverified
          => /\ rate_limits' = rate_limits
             /\ hits' = hits
             /\ ledger' = ledger
             /\ tracking' = tracking
             /\ chat' = chat]_vars

\* a well-formed pull_request payload with a wrong digest has been refused
\* while the window of its repository was full
C27_Witness ==
  \E r \in Requests :
    /\ http[r].pc = "done"
    /\ http[r].unverified
    /\ http[r].body = "pull_request"
    /\ http[r].status = 401
    /\ rate_limits # EmptyBag

\* C28: with KC_DEV_CHAT_ID configured, when a webhook whose labels match at
\* least one routing rule is received, the label task goes on to the
\* duplicate check of the first channel of its first rule: the channel is
\* never skipped because its chat id reads empty, whether or not an earlier
\* request or the smart-alert task has written the shared configuration.
C28_ChannelNeverSkipped ==
  [][\A r \in Requests :
       /\ webhooks' = webhooks + 1
       /\ req'[r] # req[r]
       /\ req'[r].rules # <<>>
       /\ EnvChatId # ""
       => /\ req'[r].label.pc = "check"
          /\ req'[r].label.ri = 1
          /\ req'[r].label.ci = 1]_vars

(***************************************************************************)
(* The channel loop of sendLabelBasedNotification and sendGitHubNotification *)
(* for a rule that targets several channels                                *)
(***************************************************************************)
MaxNotifications == 2
LoopChannels == {"kc_dev", "kc_ops", "kc_sec"}
LoopKeys == {"k1", "k2"}

\* the chat id each channel is configured with
LoopChatId(channelKey) ==
  CASE channelKey = "kc_dev" -> EnvChatId
    [] channelKey = "kc_ops" -> "-100456"
    [] channelKey = "kc_sec" -> "-100789"

\* targetChannels of a rule: one to three different channels, in any order
LoopTargets ==
  {t \in UNION {[1..n -> LoopChannels] : n \in 1..3} :
     \A i, j \in 1..Len(t) : i # j => t[i] # t[j]}

\* SELECT id FROM github_notifications WHERE event_type = ? AND github_id = ?
\* AND notification_type = ? AND data_hash = ?: chat_id is not compared
LoopExisting(rows, key) == \E row \in rows : row[1] = key

\* for (const channelKey of targetChannels): the next channel, or the end
LoopAt(l, ci) ==
  IF ci > Len(l.targets) THEN [l EXCEPT !.pc = "done", !.ci = 0]
  ELSE [l EXCEPT !.pc = "check", !.ci = ci]

\* a notification for `key` is sent to the channels `targets`
LoopBegin(key, targets) ==
  /\ loop.pc \in {"idle", "done"}
  /\ loop.n < MaxNotifications
  /\ loop' = LoopAt([loop EXCEPT !.key = key, !.targets = targets,
                                 !.first = ~LoopExisting(loop.rows, key),
                                 !.failed = FALSE, !.n = @ + 1], 1)
  /\ UNCHANGED <<dedupVars, pingVars, rateVars, route, match, http, trigger,
                 call, tg, pulse>>

\* if (existingNotification) continue
LoopCheck ==
  /\ loop.pc = "check"
  /\ loop' = IF LoopExisting(loop.rows, loop.key)
             THEN LoopAt(loop, loop.ci + 1)
             ELSE [loop EXCEPT !.pc = "send"]
  /\ UNCHANGED <<dedupVars, pingVars, rateVars, route, match, http, trigger,
                 call, tg, pulse>>

\* sendTelegramMessage: response.ok, a response that is not ok, or a throw
\* caught by the try/catch of the channel
LoopSend(o) ==
  /\ loop.pc = "send"
  /\ loop' =
       IF o = "ok"
       THEN [loop EXCEPT !.pc = "record",
                         !.delivered = @ \cup
                           {<<loop.key, LoopChatId(loop.targets[loop.ci])>>}]
       ELSE LoopAt([loop EXCEPT !.failed = TRUE], loop.ci + 1)
  /\ UNCHANGED <<dedupVars, pingVars, rateVars, route, match, http, trigger,
                 call, tg, pulse>>

\* INSERT INTO github_notifications; UNIQUE(event_type, github_id,
\* notification_type, data_hash) rejects a second row of the key; a throw is
\* caught by the try/catch of the channel
LoopRecord(dbok) ==
  /\ loop.pc = "record"
  /\ loop' =
       IF dbok /\ ~LoopExisting(loop.rows, loop.key)
       THEN LoopAt([loop EXCEPT !.rows = @ \cup
                      {<<loop.key, LoopChatId(loop.targets[loop.ci])>>}],
                   loop.ci + 1)
       ELSE LoopAt([loop EXCEPT !.failed = TRUE], loop.ci + 1)
  /\ UNCHANGED <<dedupVars, pingVars, rateVars, route, match, http, trigger,
                 call, tg, pulse>>

LoopNext ==
  \/ \E key \in LoopKeys, targets \in LoopTargets : LoopBegin(key, targets)
  \/ LoopCheck
  \/ \E o \in SendOutcomes : LoopSend(o)
  \/ \E dbok \in BOOLEAN : LoopRecord(dbok)

SpecLoop == DedupInit /\ [][LoopNext]_vars

\* C29: a notification sent for the first time through a rule whose target
\* channels are all configured, with no send and no ledger write failing, has
\* been delivered to every one of those channels when the loop ends.
C29_EveryChannelReached ==
  loop.pc = "done" /\ loop.first /\ ~loop.failed =>
    \A i \in 1..Len(loop.targets) :
      <<loop.key, LoopChatId(loop.targets[i])>> \in loop.delivered

(***************************************************************************)
(* Activity pulse reports: scheduleActivityPulseReports,                   *)
(* manualTriggerNotification and processActivityPulseReport                *)
(***************************************************************************)
MaxReports == 3
PulsePeriods == {"hourly", "daily", "weekly"}

\* the hours at which the clock is observed: Sunday and Monday, 9 and 10
PulseTimes == {9, 10, 33, 34}

\* endDate.split('T')[0]
DateOf(t) == t \div 24

\* SELECT id FROM activity_pulse WHERE date = ? AND period_type = ?
\* AND last_sent_at IS NOT NULL
existingReport(table, date, period) == <<date, period>> \in table

\* INSERT OR REPLACE INTO activity_pulse: date alone is the primary key, so
\* the row of the date is replaced whatever its period_type was
recordActivityPulse(table, date, period) ==
  {row \in table : row[1] # date} \cup {<<date, period>>}

\* processActivityPulseReport up to its first return: the report of the
\* period is already recorded for today, or there is no activity to report
StartReport(c, period, active) ==
  /\ pulse.run[c].pc = "idle"
  /\ pulse.n < MaxReports
  /\ pulse' =
       [pulse EXCEPT
          !.n = @ + 1,
          !.run[c] =
            IF existingReport(pulse.table, DateOf(pulse.clock), period)
               \/ ~active
            THEN IdlePulseCall
            ELSE [pc |-> "send", period |-> period,
                  date |-> DateOf(pulse.clock)]]
  /\ UNCHANGED <<dedupVars, pingVars, rateVars, route, match, http, trigger,
                 call, tg, loop>>

\* scheduleActivityPulseReports: the hour is read once, so a tick calls
\* processActivityPulseReport for at most one period
PulseTick(c, active) ==
  /\ ActivityPulsePeriods(pulse.clock) # {}
  /\ \E period \in ActivityPulsePeriods(pulse.clock) :
       StartReport(c, period, active)

\* manualTriggerNotification('activity_pulse', period, ...)
PulseManual(c, period, active) ==
  /\ period \in PulsePeriods
  /\ StartReport(c, period, active)

\* the send to kc_dev; the report is recorded whatever the outcome is
PulseSend(c, o) ==
  /\ pulse.run[c].pc = "send"
  /\ pulse' =
       [pulse EXCEPT
          !.run[c].pc = "record",
          !.reports =
            IF o = "ok"
            THEN @ (+) SetToBag({<<pulse.run[c].period, pulse.run[c].date>>})
            ELSE @]
  /\ UNCHANGED <<dedupVars, pingVars, rateVars, route, match, http, trigger,
                 call, tg, loop>>

\* await recordActivityPulse(db, activityData, period, endDate); what it
\* throws is caught and logged by processActivityPulseReport
PulseRecord(c, dbok) ==
  /\ pulse.run[c].pc = "record"
  /\ pulse' =
       [pulse EXCEPT
          !.run[c] = IdlePulseCall,
          !.table =
            IF dbok
            THEN recordActivityPulse(@, pulse.run[c].date, pulse.run[c].period)
            ELSE @]
  /\ UNCHANGED <<dedupVars, pingVars, rateVars, route, match, http, trigger,
                 call, tg, loop>>

PulseClock ==
  /\ \E t \in PulseTimes :
       /\ t > pulse.clock
       /\ \A u \in PulseTimes : u > pulse.clock => t <= u
       /\ pulse' = [pulse EXCEPT !.clock = t]
  /\ UNCHANGED <<dedupVars, pingVars, rateVars, route, match, http, trigger,
                 call, tg, loop>>

PulseNext ==
  \/ \E c \in PulseCallers, active \in BOOLEAN : PulseTick(c, active)
  \/ \E c \in PulseCallers, period \in PulsePeriods, active \in BOOLEAN :
       PulseManual(c, period, active)
  \/ \E c \in PulseCallers, o \in SendOutcomes : PulseSend(c, o)
  \/ \E c \in PulseCallers, dbok \in BOOLEAN : PulseRecord(c, dbok)
  \/ PulseClock

SpecPulse == DedupInit /\ [][PulseNext]_vars

====
